---- MODULE Spec2Model ----
(***************************************************************************)
(* Garden dashboard: beds, plants, the planting calendar, tasks and alerts *)
(* over the embedded relational store.  The request handlers are           *)
(* synchronous (better-sqlite3 calls, no await), so the Node event loop    *)
(* runs each handler to completion: one action per handler.  The alert     *)
(* checks that the sensor webhook starts await their notification request: *)
(* each runs up to the await inside the handler and finishes in a step of  *)
(* its own when the request is answered.                                   *)
(***************************************************************************)
EXTENDS Integers, Sequences, FiniteSets, TLC

----------------------------------------------------------------------------
(* Bounds of the model                                                     *)

MaxBedId == 2
MaxPlacementId == 3
MaxGridPlacementId == 2
MaxPlantId == 5
MaxAnalysisPlantId == 4
MaxWindowId == 7
MaxRow == 2
MaxCol == 1
MaxGridPos == 1
MaxTaskId == 4
MaxCreatedTaskId == 1
MaxReadingId == 3
MaxTicks == 3

----------------------------------------------------------------------------
(* Values                                                                  *)

\* a field that the request body does not carry (JavaScript undefined)
Undefined == -99
\* SQL NULL in a text column
Null == "null"
\* the value of undefined + 1, which JSON.stringify writes as null
NaN == -1

DefaultRows == 4
DefaultCols == 8

BedIds == 1..MaxBedId
PlacementIds == 1..MaxPlacementId
GridPlacementIds == 1..MaxGridPlacementId
PlantIds == 1..MaxPlantId
AnalysisPlantIds == 1..MaxAnalysisPlantId
CandidatePlantIds == {1, MaxAnalysisPlantId}
Months == 1..12

\* the clock counts minutes since midnight and starts at 21:30
StartMinute == 1290
\* the minutes between two looks at the clock
TickMinutes == 30

\* request inputs
PosInputs == {Undefined} \cup (-1..MaxGridPos)
DimInputs == {Undefined, 1}
GridPlantIds == {1}
GridPlantIdInputs == {Undefined, MaxPlantId} \cup GridPlantIds
BedNameInputs == {Undefined, 1}
WaterInputs == {Null, "soggy"}
\* the planting_windows of a create request: none, two windows of different
\* types that wrap the year, one window inside the year, two windows of one type
WindowInputs ==
  { <<>>,
    <<[window_type |-> "transplant", start_month |-> 11, start_day |-> Undefined,
       end_month |-> 1, end_day |-> Undefined],
      [window_type |-> "direct_sow", start_month |-> 10, start_day |-> 15,
       end_month |-> 2, end_day |-> 20]>>,
    <<[window_type |-> "transplant", start_month |-> 4, start_day |-> Undefined,
       end_month |-> 7, end_day |-> Undefined]>>,
    <<[window_type |-> "direct_sow", start_month |-> 4, start_day |-> Undefined,
       end_month |-> 7, end_day |-> Undefined],
      [window_type |-> "direct_sow", start_month |-> 10, start_day |-> Undefined,
       end_month |-> 2, end_day |-> Undefined]>> }

\* the planting_windows of a create request whose months lie outside 1..12: a
\* window from month 0 to month 13, and one from month 13 to month 2
IntervalWindowInputs ==
  { <<[window_type |-> "direct_sow", start_month |-> 0, start_day |-> Undefined,
       end_month |-> 13, end_day |-> Undefined]>>,
    <<[window_type |-> "transplant", start_month |-> 13, start_day |-> Undefined,
       end_month |-> 2, end_day |-> Undefined]>>,
    <<[window_type |-> "transplant", start_month |-> 3, start_day |-> Undefined,
       end_month |-> 5, end_day |-> Undefined]>> }

\* the planting_windows of a create request for the schedule: window types of the
\* display order and window types outside it
ScheduleWindowInputs ==
  { <<[window_type |-> "succession", start_month |-> 1, start_day |-> Undefined,
       end_month |-> 12, end_day |-> Undefined],
      [window_type |-> "indoor_start", start_month |-> 1, start_day |-> Undefined,
       end_month |-> 6, end_day |-> Undefined]>>,
    <<[window_type |-> "fall_sow", start_month |-> 9, start_day |-> Undefined,
       end_month |-> 2, end_day |-> Undefined],
      [window_type |-> "succession", start_month |-> 10, start_day |-> Undefined,
       end_month |-> 11, end_day |-> Undefined],
      [window_type |-> "transplant", start_month |-> 3, start_day |-> Undefined,
       end_month |-> 11, end_day |-> Undefined]>> }

\* the rows and cols of a bed request: missing, zero, negative, positive
BedDimInputs == {Undefined, 0, -2, 3}

\* the body of a task request: a missing title and a title, a description, the
\* due dates (none, the last of January, Christmas, a leap day, a midsummer day) as
\* <<year, month, day>>, and the recurrences of the schema
TaskInputs ==
  [title : {Null, "Water beds"},
   description : {Null, "deep soak"},
   task_type : {"water"},
   due_date : {<<>>, <<2025, 1, 31>>, <<2024, 12, 25>>, <<2024, 2, 29>>, <<2025, 6, 15>>},
   recurring : {Null, "daily", "weekly", "biweekly", "monthly", "yearly"},
   plant_id : {Undefined, 1},
   planting_id : {Undefined}]
TaskIds == 1..MaxTaskId

\* the form fields of a gateway post for channel 1: absent, a dry and a moist
\* soil for soilmoisture1; absent and a cold soil for tf_ch1
EcowittInputs == [soilmoisture1 : {Null, "10", "50"}, tf_ch1 : {Null, "40"}]

VARIABLES beds, bed_placements, plants, companion_relationships,
          planting_windows,
          nextBedId, nextPlacementId, nextPlantId, nextWindowId, resp,
          tasks, nextTaskId,
          sensor_readings, alert_history, inFlight, notifications, now

vars == <<beds, bed_placements, plants, companion_relationships,
          planting_windows,
          nextBedId, nextPlacementId, nextPlantId, nextWindowId, resp,
          tasks, nextTaskId,
          sensor_readings, alert_history, inFlight, notifications, now>>

db == <<beds, bed_placements, plants, companion_relationships, planting_windows>>

\* the tasks table and its rowid counter
taskDb == <<tasks, nextTaskId>>

\* the sensor and alert tables, the notifications in flight and delivered, the clock
alertState == <<sensor_readings, alert_history, inFlight, notifications, now>>

----------------------------------------------------------------------------
(* Seed data: the rows of the seed script that the model keeps             *)

seedPlants ==
  { [id |-> 1, name |-> "Cucumber", variety |-> "Marketmore", water_needs |-> "high",
     watched |-> 0],
    [id |-> 2, name |-> "Potato", variety |-> "Yukon Gold", water_needs |-> "medium",
     watched |-> 0],
    [id |-> 3, name |-> "Garlic", variety |-> "Softneck", water_needs |-> "low",
     watched |-> 0] }

SeedPlantCount == 3

\* the seeded planting windows of these plants; start_day and end_day take
\* the column defaults 1 and 28
seedWindows ==
  { [id |-> 1, plant_id |-> 1, window_type |-> "direct_sow",
     start_month |-> 4, start_day |-> 1, end_month |-> 6, end_day |-> 28],
    [id |-> 2, plant_id |-> 2, window_type |-> "direct_sow",
     start_month |-> 2, start_day |-> 1, end_month |-> 8, end_day |-> 28],
    [id |-> 3, plant_id |-> 3, window_type |-> "direct_sow",
     start_month |-> 10, start_day |-> 1, end_month |-> 12, end_day |-> 28] }

SeedWindowCount == 3

seedCompanions ==
  { [id |-> 1, plant_name_a |-> "Cucumber", plant_name_b |-> "Lettuce",
     relationship |-> "good", notes |-> "Good ground cover"],
    [id |-> 2, plant_name_a |-> "Cucumber", plant_name_b |-> "Potato",
     relationship |-> "bad", notes |-> "Compete for nutrients"],
    [id |-> 3, plant_name_a |-> "Lettuce", plant_name_b |-> "Garlic",
     relationship |-> "good", notes |-> "Garlic repels aphids"],
    [id |-> 4, plant_name_a |-> "Garlic", plant_name_b |-> "Lettuce",
     relationship |-> "good", notes |-> "Garlic repels aphids"],
    [id |-> 5, plant_name_a |-> "Potato", plant_name_b |-> "Cucumber",
     relationship |-> "bad", notes |-> "Cucumbers worsen blight susceptibility"] }

----------------------------------------------------------------------------
(* JavaScript and SQL helpers                                              *)

\* a < b in JavaScript: a comparison with undefined is false
JsLt(a, b) == a # Undefined /\ b # Undefined /\ a < b

\* a >= b in JavaScript
JsGe(a, b) == a # Undefined /\ b # Undefined /\ a >= b

\* a || b on numbers: 0 and undefined are falsy
JsOr(a, b) == IF a = Undefined \/ a = 0 THEN b ELSE a

\* COALESCE(?, old): better-sqlite3 binds undefined as NULL
Coalesce(a, old) == IF a = Undefined THEN old ELSE a

Abs(n) == IF n < 0 THEN -n ELSE n

Max(S) == CHOOSE x \in S : \A y \in S : y <= x

Min(S) == CHOOSE x \in S : \A y \in S : x <= y

\* a response without a body: res.status(status).json({ error })
Response(status, error) ==
  [status |-> status, error |-> error, bed |-> <<>>, analysis |-> <<>>,
   req |-> <<>>, body |-> <<>>]

----------------------------------------------------------------------------
(* Queries                                                                 *)

\* SELECT * FROM beds WHERE id = ?
BedRows(id) == {b \in beds : b.id = id}

BedOf(id) == CHOOSE b \in beds : b.id = id

\* SELECT * FROM plants WHERE id = ?
PlantRows(id) == {p \in plants : p.id = id}

PlantOf(id) == CHOOSE p \in plants : p.id = id

\* SELECT * FROM bed_placements WHERE bed_id = ? AND row = ? AND col = ?
PlacementsAt(bed_id, row, col) ==
  {bp \in bed_placements : bp.bed_id = bed_id /\ bp.row = row /\ bp.col = col}

\* SELECT * FROM bed_placements WHERE id = ? AND bed_id = ?
PlacementRows(placementId, bed_id) ==
  {bp \in bed_placements : bp.id = placementId /\ bp.bed_id = bed_id}

----------------------------------------------------------------------------
(* Initial state: the schema is created and the seed script has run        *)

\* no task, no reading and no alert yet; the clock shows StartMinute
InitTasksAndAlerts ==
  /\ tasks = {}
  /\ nextTaskId = 1
  /\ sensor_readings = {}
  /\ alert_history = {}
  /\ inFlight = {}
  /\ notifications = {}
  /\ now = StartMinute

Init ==
  /\ beds = {}
  /\ bed_placements = {}
  /\ plants = seedPlants
  /\ companion_relationships = seedCompanions
  /\ planting_windows = seedWindows
  /\ nextBedId = 1
  /\ nextPlacementId = 1
  /\ nextPlantId = SeedPlantCount + 1
  /\ nextWindowId = SeedWindowCount + 1
  /\ resp = Response(0, "")
  /\ InitTasksAndAlerts

----------------------------------------------------------------------------
(* Beds                                                                    *)

\* POST /api/beds
CreateBed(name, rows, cols) ==
  /\ name # Undefined => nextBedId <= MaxBedId
  /\ IF name = Undefined
       THEN /\ resp' = Response(400, "Bed name is required")
            /\ UNCHANGED <<beds, nextBedId>>
       ELSE /\ beds' = beds \cup {[id |-> nextBedId,
                                   rows |-> JsOr(rows, DefaultRows),
                                   cols |-> JsOr(cols, DefaultCols)]}
            /\ nextBedId' = nextBedId + 1
            /\ resp' = Response(201, "")
  /\ UNCHANGED <<bed_placements, plants, companion_relationships,
                 nextPlacementId, nextPlantId, planting_windows, nextWindowId>>
  /\ UNCHANGED <<taskDb, alertState>>

\* PUT /api/beds/:id
UpdateBed(id, rows, cols) ==
  /\ IF BedRows(id) = {}
       THEN /\ resp' = Response(404, "Bed not found")
            /\ UNCHANGED beds
       ELSE /\ beds' = (beds \ BedRows(id)) \cup
                         {[id |-> id,
                           rows |-> Coalesce(rows, BedOf(id).rows),
                           cols |-> Coalesce(cols, BedOf(id).cols)]}
            /\ resp' = Response(200, "")
  /\ UNCHANGED <<bed_placements, plants, companion_relationships,
                 nextBedId, nextPlacementId, nextPlantId, planting_windows, nextWindowId>>
  /\ UNCHANGED <<taskDb, alertState>>

\* DELETE /api/beds/:id, with ON DELETE CASCADE of the bed's placements
DeleteBed(id) ==
  /\ IF BedRows(id) = {}
       THEN /\ resp' = Response(404, "Bed not found")
            /\ UNCHANGED <<beds, bed_placements>>
       ELSE /\ beds' = beds \ BedRows(id)
            /\ bed_placements' = {bp \in bed_placements : bp.bed_id # id}
            /\ resp' = Response(204, "")
  /\ UNCHANGED <<plants, companion_relationships,
                 nextBedId, nextPlacementId, nextPlantId, planting_windows, nextWindowId>>
  /\ UNCHANGED <<taskDb, alertState>>

----------------------------------------------------------------------------
(* Placements                                                              *)

\* row INTEGER NOT NULL, col INTEGER NOT NULL, plant_id INTEGER NOT NULL
NotNullOk(bp) ==
  bp.plant_id # Undefined /\ bp.row # Undefined /\ bp.col # Undefined

\* FOREIGN KEY (bed_id) REFERENCES beds, (plant_id) REFERENCES plants
ForeignKeysOk(bp) == BedRows(bp.bed_id) # {} /\ PlantRows(bp.plant_id) # {}

\* the table without its UNIQUE(bed_id, row, col) constraint
UniqueCellUnchecked(rows) == TRUE

\* UNIQUE(bed_id, row, col) over the rows of the table
UniqueCellOk(rows) ==
  \A p, q \in rows :
    (p.bed_id = q.bed_id /\ p.row = q.row /\ p.col = q.col) => p.id = q.id

\* the bounds test of Place and Move:
\* row < 0 || row >= bed.rows || col < 0 || col >= bed.cols
OutOfBounds(bed, row, col) ==
  JsLt(row, 0) \/ JsGe(row, bed.rows) \/ JsLt(col, 0) \/ JsGe(col, bed.cols)

----------------------------------------------------------------------------
(* Companion lookups shared by Place, bed analysis and companion-check     *)

RECURSIVE SortedSeq(_)
\* the elements of a set of integers in ascending order
SortedSeq(S) ==
  IF S = {} THEN <<>> ELSE <<Min(S)>> \o SortedSeq(S \ {Min(S)})

\* a join that takes the variety, when there is one, for the name to match
JoinPlantByVariety(table, bp) ==
  LET p == CHOOSE q \in table : q.id = bp.plant_id
  IN  [id |-> bp.id, bed_id |-> bp.bed_id, plant_id |-> bp.plant_id,
       row |-> bp.row, col |-> bp.col,
       plant_name |-> IF p.variety = Null THEN p.name ELSE p.variety,
       plant_variety |-> p.variety,
       water_needs |-> p.water_needs]

\* a placement row joined with its plant in a plants table:
\* bp.*, p.name as plant_name, p.variety as plant_variety, p.water_needs
JoinPlantIn(table, bp) ==
  LET p == CHOOSE q \in table : q.id = bp.plant_id
  IN  [id |-> bp.id, bed_id |-> bp.bed_id, plant_id |-> bp.plant_id,
       row |-> bp.row, col |-> bp.col,
       plant_name |-> p.name,
       plant_variety |-> p.variety,
       water_needs |-> p.water_needs]

\* a placement row joined with its plant
JoinPlant(bp) == JoinPlantIn(plants, bp)

\* a lookup that finds a pair in its stored order only
relationshipStoredOrder(name1, name2) ==
  LET first == {r \in companion_relationships :
                  r.plant_name_a = name1 /\ r.plant_name_b = name2}
  IN  IF first # {} THEN <<CHOOSE r \in first : TRUE>> ELSE <<>>

\* SELECT * FROM companion_relationships WHERE (a = ? AND b = ?) OR (a = ? AND b = ?)
\* .get() returns the first row: the row of the first term when both are stored
relationship(name1, name2) ==
  LET first == {r \in companion_relationships :
                  r.plant_name_a = name1 /\ r.plant_name_b = name2}
      second == {r \in companion_relationships :
                  r.plant_name_a = name2 /\ r.plant_name_b = name1}
  IN  IF first # {} THEN <<CHOOSE r \in first : TRUE>>
      ELSE IF second # {} THEN <<CHOOSE r \in second : TRUE>>
      ELSE <<>>

\* plant.variety ? `${plant.name} (${plant.variety})` : plant.name
plantName(name, variety) ==
  IF variety = Null THEN <<name>> ELSE <<name, variety>>

\* SELECT bp.*, p.name as plant_name, p.variety as plant_variety FROM bed_placements bp
\* JOIN plants p ON bp.plant_id = p.id
\* WHERE bp.bed_id = ? AND ABS(bp.row - ?) <= 1 AND ABS(bp.col - ?) <= 1,
\* read from a plants table; the rows come in rowid order
adjacentPlacementsIn(table, id, row, col) ==
  LET rows == {bp \in bed_placements :
                 /\ bp.bed_id = id
                 /\ \E q \in table : q.id = bp.plant_id
                 /\ Abs(bp.row - row) <= 1
                 /\ Abs(bp.col - col) <= 1}
      ids == SortedSeq({bp.id : bp \in rows})
  IN  [k \in 1..Len(ids) |-> JoinPlantIn(table, CHOOSE bp \in rows : bp.id = ids[k])]

\* the adjacent placements of a cell
adjacentPlacements(id, row, col) == adjacentPlacementsIn(plants, id, row, col)

\* a warning that is pushed for bad relationships only
WarningOfBadOnly(plant_name, adj) ==
  LET rel == relationship(plant_name, adj.plant_name)
  IN  IF rel # <<>> /\ rel[1].relationship = "bad"
        THEN <<[type |-> "bad_companion",
                plant |-> plantName(adj.plant_name, adj.plant_variety),
                position |-> [row |-> adj.row, col |-> adj.col],
                message |-> rel[1].notes]>>
        ELSE <<>>

\* the entry that Place pushes to warnings for one adjacent placement
WarningOf(plant_name, adj) ==
  LET rel == relationship(plant_name, adj.plant_name)
  IN  IF rel # <<>> /\ rel[1].relationship \in {"bad", "good"}
        THEN <<[type |-> IF rel[1].relationship = "bad" THEN "bad_companion"
                         ELSE "good_companion",
                plant |-> plantName(adj.plant_name, adj.plant_variety),
                position |-> [row |-> adj.row, col |-> adj.col],
                message |-> rel[1].notes]>>
        ELSE <<>>

RECURSIVE warnings(_, _)
\* companion_info of Place: the warnings for the adjacent placements, in their order
warnings(plant_name, adjs) ==
  IF adjs = <<>> THEN <<>>
  ELSE WarningOf(plant_name, Head(adjs)) \o warnings(plant_name, Tail(adjs))

\* the row that Place inserts
NewPlacement(id, plant_id, row, col) ==
  [id |-> nextPlacementId, bed_id |-> id, plant_id |-> plant_id,
   row |-> row, col |-> col]

\* the response of POST /api/beds/:id/placements in the current state
PlaceResponse(id, plant_id, row, col) ==
  IF BedRows(id) = {} THEN Response(404, "Bed not found")
  ELSE IF OutOfBounds(BedOf(id), row, col)
    THEN Response(400, "Cell position out of bounds")
  ELSE IF PlacementsAt(id, row, col) # {}
    THEN Response(400, "Cell is already occupied")
  ELSE IF ~ ( /\ NotNullOk(NewPlacement(id, plant_id, row, col))
              /\ ForeignKeysOk(NewPlacement(id, plant_id, row, col))
              /\ UniqueCellOk(bed_placements \cup
                                {NewPlacement(id, plant_id, row, col)}) )
    THEN Response(500, "Failed to add placement")
  ELSE [Response(201, "") EXCEPT
          !.body = <<[placement |-> JoinPlant(NewPlacement(id, plant_id, row, col)),
                      companion_info |->
                        warnings(PlantOf(plant_id).name,
                                 adjacentPlacements(id, row, col))]>>]

\* POST /api/beds/:id/placements
Place(id, plant_id, row, col) ==
  /\ PlaceResponse(id, plant_id, row, col).status = 201
       => nextPlacementId <= MaxPlacementId
  /\ resp' = PlaceResponse(id, plant_id, row, col)
  /\ IF PlaceResponse(id, plant_id, row, col).status = 201
       THEN /\ bed_placements' = bed_placements \cup
                                   {NewPlacement(id, plant_id, row, col)}
            /\ nextPlacementId' = nextPlacementId + 1
       ELSE UNCHANGED <<bed_placements, nextPlacementId>>
  /\ UNCHANGED <<beds, plants, companion_relationships, nextBedId, nextPlantId, planting_windows, nextWindowId>>
  /\ UNCHANGED <<taskDb, alertState>>

\* the row that Move writes: row = COALESCE(?, row), col = COALESCE(?, col)
MovedPlacement(bp, row, col) ==
  [bp EXCEPT !.row = Coalesce(row, @), !.col = Coalesce(col, @)]

\* the table after the UPDATE of Move
MovedTable(id, placementId, row, col) ==
  {IF bp.id = placementId THEN MovedPlacement(bp, row, col) ELSE bp :
     bp \in bed_placements}

\* the response of PATCH /api/beds/:id/placements/:placementId
MoveResponse(id, placementId, row, col) ==
  IF BedRows(id) = {} THEN Response(404, "Bed not found")
  ELSE IF PlacementRows(placementId, id) = {}
    THEN Response(404, "Placement not found")
  ELSE IF row # Undefined /\ col # Undefined /\ OutOfBounds(BedOf(id), row, col)
    THEN Response(400, "Cell position out of bounds")
  ELSE IF /\ row # Undefined /\ col # Undefined
          /\ {bp \in PlacementsAt(id, row, col) : bp.id # placementId} # {}
    THEN Response(400, "Target cell is already occupied")
  ELSE IF ~ UniqueCellOk(MovedTable(id, placementId, row, col))
    THEN Response(500, "Failed to update placement")
  ELSE Response(200, "")

\* PATCH /api/beds/:id/placements/:placementId
Move(id, placementId, row, col) ==
  /\ resp' = MoveResponse(id, placementId, row, col)
  /\ IF MoveResponse(id, placementId, row, col).status = 200
       THEN bed_placements' = MovedTable(id, placementId, row, col)
       ELSE UNCHANGED bed_placements
  /\ UNCHANGED <<beds, plants, companion_relationships,
                 nextBedId, nextPlacementId, nextPlantId, planting_windows, nextWindowId>>
  /\ UNCHANGED <<taskDb, alertState>>

\* the response of DELETE /api/beds/:id/placements/:placementId
RemoveResponse(id, placementId) ==
  IF PlacementRows(placementId, id) = {}
    THEN Response(404, "Placement not found")
    ELSE Response(204, "")

\* DELETE /api/beds/:id/placements/:placementId
Remove(id, placementId) ==
  /\ resp' = RemoveResponse(id, placementId)
  /\ IF PlacementRows(placementId, id) = {}
       THEN UNCHANGED bed_placements
       ELSE bed_placements' = {bp \in bed_placements : bp.id # placementId}
  /\ UNCHANGED <<beds, plants, companion_relationships,
                 nextBedId, nextPlacementId, nextPlantId, planting_windows, nextWindowId>>
  /\ UNCHANGED <<taskDb, alertState>>

----------------------------------------------------------------------------
(* Plants                                                                  *)

\* CREATE UNIQUE INDEX idx_plants_name_variety ON plants(name, variety):
\* SQLite counts two NULL varieties as different values
PlantUniqueOk(name, variety) ==
  variety = Null \/ \A p \in plants : ~ (p.name = name /\ p.variety = variety)

\* the NOT NULL columns of planting_windows and
\* CREATE UNIQUE INDEX idx_planting_windows_unique ON planting_windows(plant_id, window_type),
\* for the windows of a plant that has none yet
WindowsOk(windows) ==
  /\ \A k \in 1..Len(windows) :
       /\ windows[k].window_type # Null
       /\ windows[k].start_month # Undefined
       /\ windows[k].end_month # Undefined
  /\ \A j \in 1..Len(windows) : \A k \in 1..Len(windows) :
       j # k => windows[j].window_type # windows[k].window_type

\* insertWindow.run(plantId, w.window_type, w.start_month, w.start_day || 1,
\*                  w.end_month, w.end_day || 28) for each w of planting_windows
NewWindows(plantId, windows) ==
  { [id |-> nextWindowId + k - 1, plant_id |-> plantId,
     window_type |-> windows[k].window_type,
     start_month |-> windows[k].start_month,
     start_day |-> JsOr(windows[k].start_day, 1),
     end_month |-> windows[k].end_month,
     end_day |-> JsOr(windows[k].end_day, 28)] : k \in 1..Len(windows) }

\* POST /api/plants: the plant row is inserted first and on its own; the windows
\* are inserted in one transaction, whose failure leaves the plant row stored
CreatePlant(name, variety, water_needs, windows) ==
  /\ name # Null =>
       (nextPlantId <= MaxPlantId /\ nextWindowId + Len(windows) - 1 <= MaxWindowId)
  /\ IF name = Null
       THEN /\ resp' = Response(400, "Plant name is required")
            /\ UNCHANGED <<plants, nextPlantId, planting_windows, nextWindowId>>
       ELSE IF ~ PlantUniqueOk(name, variety)
         THEN /\ resp' = Response(500, "Failed to create plant")
              /\ UNCHANGED <<plants, nextPlantId, planting_windows, nextWindowId>>
         ELSE /\ plants' = plants \cup {[id |-> nextPlantId, name |-> name,
                                         variety |-> variety,
                                         water_needs |-> water_needs,
                                         watched |-> 0]}
              /\ nextPlantId' = nextPlantId + 1
              /\ IF WindowsOk(windows)
                   THEN /\ planting_windows' =
                             planting_windows \cup NewWindows(nextPlantId, windows)
                        /\ nextWindowId' = nextWindowId + Len(windows)
                        /\ resp' = Response(201, "")
                   ELSE /\ UNCHANGED <<planting_windows, nextWindowId>>
                        /\ resp' = Response(500, "Failed to create plant")
  /\ UNCHANGED <<beds, bed_placements, companion_relationships,
                 nextBedId, nextPlacementId>>
  /\ UNCHANGED <<taskDb, alertState>>

\* DELETE /api/plants/:id, with ON DELETE CASCADE of the plant's planting windows
\* and bed placements; tasks.plant_id references plants(id) without a cascade, so
\* the delete of a plant that a task names fails
DeletePlant(id) ==
  /\ IF PlantRows(id) = {}
       THEN /\ resp' = Response(404, "Plant not found")
            /\ UNCHANGED <<plants, bed_placements, planting_windows>>
       ELSE IF \E t \in tasks : t.plant_id = id
         THEN /\ resp' = Response(500, "Failed to delete plant")
              /\ UNCHANGED <<plants, bed_placements, planting_windows>>
       ELSE /\ plants' = plants \ PlantRows(id)
            /\ bed_placements' = {bp \in bed_placements : bp.plant_id # id}
            /\ planting_windows' = {pw \in planting_windows : pw.plant_id # id}
            /\ resp' = Response(204, "")
  /\ UNCHANGED <<beds, companion_relationships,
                 nextBedId, nextPlacementId, nextPlantId, nextWindowId>>
  /\ UNCHANGED <<taskDb, alertState>>

\* POST /api/plants/:id/watch
ToggleWatch(id) ==
  /\ IF PlantRows(id) = {}
       THEN /\ resp' = Response(404, "Plant not found")
            /\ UNCHANGED plants
       ELSE /\ plants' = (plants \ PlantRows(id)) \cup
                         {[PlantOf(id) EXCEPT !.watched =
                             IF PlantOf(id).watched # 0 THEN 0 ELSE 1]}
            /\ resp' = Response(200, "")
  /\ UNCHANGED <<beds, bed_placements, companion_relationships, planting_windows,
                 nextBedId, nextPlacementId, nextPlantId, nextWindowId>>
  /\ UNCHANGED <<taskDb, alertState>>

----------------------------------------------------------------------------
(* Bed analysis                                                            *)

\* SELECT bp.*, ... FROM bed_placements bp JOIN plants p ... WHERE bp.bed_id = ?
\* read from a plants table; the rows come in rowid order
placementsIn(table, id) ==
  LET rows == {bp \in bed_placements :
                 bp.bed_id = id /\ \E q \in table : q.id = bp.plant_id}
      ids == SortedSeq({bp.id : bp \in rows})
  IN  [k \in 1..Len(ids) |-> JoinPlantIn(table, CHOOSE bp \in rows : bp.id = ids[k])]

\* the placements of a bed with their plants
placements(id) == placementsIn(plants, id)

\* waterNeedsCounts[key]++ : a missing key becomes undefined + 1 = NaN
Increment(counts, key) ==
  [k \in DOMAIN counts \cup {key} |->
     IF k # key THEN counts[k]
     ELSE IF k \in DOMAIN counts /\ counts[k] # NaN THEN counts[k] + 1
     ELSE NaN]

\* if (p.water_needs) waterNeedsCounts[p.water_needs]++
TallyOne(counts, p) ==
  IF p.water_needs = Null THEN counts ELSE Increment(counts, p.water_needs)

RECURSIVE Tally(_, _)
Tally(counts, ps) ==
  IF ps = <<>> THEN counts ELSE Tally(TallyOne(counts, Head(ps)), Tail(ps))

\* const waterNeedsCounts = { low: 0, medium: 0, high: 0 }; placements.forEach
waterNeedsCounts(ps) ==
  Tally([k \in {"low", "medium", "high"} |-> 0], ps)

\* a conflict test that a medium placement switches off
hasWaterConflictWithoutMedium(counts) ==
  counts["low"] > 0 /\ counts["high"] > 0 /\ counts["medium"] = 0

\* waterNeedsCounts.low > 0 && waterNeedsCounts.high > 0
hasWaterConflict(counts) == counts["low"] > 0 /\ counts["high"] > 0

\* adjacency along rows and columns only, the diagonal neighbours left out
isAdjacentOrthogonal(p1, p2) ==
  Abs(p1.row - p2.row) + Abs(p1.col - p2.col) = 1

\* rowDiff <= 1 && colDiff <= 1 && !(rowDiff === 0 && colDiff === 0)
isAdjacent(p1, p2) ==
  LET rowDiff == Abs(p1.row - p2.row)
      colDiff == Abs(p1.col - p2.col)
  IN  rowDiff <= 1 /\ colDiff <= 1 /\ ~ (rowDiff = 0 /\ colDiff = 0)

\* the entry that the pair (p1, p2) adds to companionIssues
IssueOf(p1, p2) ==
  IF /\ isAdjacent(p1, p2)
     /\ relationship(p1.plant_name, p2.plant_name) # <<>>
     /\ relationship(p1.plant_name, p2.plant_name)[1].relationship = "bad"
  THEN << [plant1 |-> [id |-> p1.id, name |-> p1.plant_name,
                       variety |-> p1.plant_variety, row |-> p1.row, col |-> p1.col],
           plant2 |-> [id |-> p2.id, name |-> p2.plant_name,
                       variety |-> p2.plant_variety, row |-> p2.row, col |-> p2.col],
           reason |-> relationship(p1.plant_name, p2.plant_name)[1].notes] >>
  ELSE <<>>

\* the start of the inner loop: for (let j = i + 1; ...)
InnerStart(i) == i + 1

RECURSIVE IssuesFrom(_, _, _)
\* for (i = 0; i < length; i++) for (j = i + 1; j < length; j++)
IssuesFrom(ps, i, j) ==
  IF i > Len(ps) THEN <<>>
  ELSE IF j > Len(ps) THEN IssuesFrom(ps, i + 1, InnerStart(i + 1))
  ELSE IssueOf(ps[i], ps[j]) \o IssuesFrom(ps, i, j + 1)

companionIssues(ps) == IssuesFrom(ps, 1, InnerStart(1))

\* an analysis whose total_plants adds up the three buckets
analysisTalliedTotal(id) ==
  [water_needs |-> waterNeedsCounts(placements(id)),
   has_water_conflict |-> hasWaterConflict(waterNeedsCounts(placements(id))),
   companion_issues |-> companionIssues(placements(id)),
   total_plants |-> waterNeedsCounts(placements(id))["low"]
                      + waterNeedsCounts(placements(id))["medium"]
                      + waterNeedsCounts(placements(id))["high"],
   total_cells |-> BedOf(id).rows * BedOf(id).cols]

\* the analysis object of the response
analysis(id) ==
  [water_needs |-> waterNeedsCounts(placements(id)),
   has_water_conflict |-> hasWaterConflict(waterNeedsCounts(placements(id))),
   companion_issues |-> companionIssues(placements(id)),
   total_plants |-> Len(placements(id)),
   total_cells |-> BedOf(id).rows * BedOf(id).cols]

\* the response of GET /api/beds/:id
AnalyzeResponse(id) ==
  IF BedRows(id) = {} THEN Response(404, "Bed not found")
  ELSE [status |-> 200, error |-> "", bed |-> <<BedOf(id)>>,
        analysis |-> <<analysis(id)>>, req |-> <<>>, body |-> <<>>]

\* GET /api/beds/:id
Analyze(id) ==
  /\ resp' = AnalyzeResponse(id)
  /\ UNCHANGED <<beds, bed_placements, plants, companion_relationships,
                 nextBedId, nextPlacementId, nextPlantId, planting_windows, nextWindowId>>
  /\ UNCHANGED <<taskDb, alertState>>

----------------------------------------------------------------------------
(* GET /api/beds/:id/companion-check                                       *)

\* the info object of one adjacent placement:
\* { plant, position: { row, col }, notes: relationship?.notes || null }
InfoOf(plant_name, adj) ==
  [plant |-> plantName(adj.plant_name, adj.plant_variety),
   position |-> [row |-> adj.row, col |-> adj.col],
   notes |-> IF relationship(plant_name, adj.plant_name) = <<>> THEN Null
             ELSE relationship(plant_name, adj.plant_name)[1].notes]

\* the bucket that receives the info of one adjacent placement:
\* companions[relationship.relationship], or neutral without a relationship
BucketOf(plant_name, adj) ==
  IF relationship(plant_name, adj.plant_name) = <<>> THEN "neutral"
  ELSE relationship(plant_name, adj.plant_name)[1].relationship

RECURSIVE Classify(_, _, _)
\* for (const adj of adjacentPlacements) { ... companions[...].push(info) }
Classify(companions, plant_name, adjs) ==
  IF adjs = <<>> THEN companions
  ELSE Classify([companions EXCEPT ![BucketOf(plant_name, Head(adjs))] =
                   Append(@, InfoOf(plant_name, Head(adjs)))],
                plant_name, Tail(adjs))

\* const companions = { good: [], bad: [], neutral: [] } filled by the loop
adjacent_analysis(plant_name, adjs) ==
  Classify([k \in {"good", "bad", "neutral"} |-> <<>>], plant_name, adjs)

\* SELECT DISTINCT CASE WHEN plant_name_a = ? THEN plant_name_b ELSE plant_name_a END
\* as companion, notes FROM companion_relationships
\* WHERE (plant_name_a = ? OR plant_name_b = ?) AND relationship = ?
generalCompanions(plant_name, tag) ==
  { [companion |-> IF r.plant_name_a = plant_name THEN r.plant_name_b
                   ELSE r.plant_name_a,
     notes |-> r.notes] :
      r \in {x \in companion_relationships :
               /\ (x.plant_name_a = plant_name \/ x.plant_name_b = plant_name)
               /\ x.relationship = tag} }

\* the response of GET /api/beds/:id/companion-check?plant_id=&row=&col=
\* pushing to a bucket that companions does not have throws, which the handler
\* answers with 500
CompanionCheckResponse(id, plant_id, row, col) ==
  IF BedRows(id) = {} THEN Response(404, "Bed not found")
  ELSE IF PlantRows(plant_id) = {} THEN Response(404, "Plant not found")
  ELSE IF \E k \in 1..Len(adjacentPlacements(id, row, col)) :
            BucketOf(PlantOf(plant_id).name, adjacentPlacements(id, row, col)[k])
              \notin {"good", "bad", "neutral"}
    THEN Response(500, "Failed to check companions")
  ELSE [Response(200, "") EXCEPT
          !.req = <<[route |-> "companion-check", id |-> id,
                     plant_id |-> plant_id, row |-> row, col |-> col]>>,
          !.body = <<[plant |-> plantName(PlantOf(plant_id).name,
                                          PlantOf(plant_id).variety),
                      adjacent_analysis |->
                        adjacent_analysis(PlantOf(plant_id).name,
                                          adjacentPlacements(id, row, col)),
                      general_companions |->
                        [good |-> generalCompanions(PlantOf(plant_id).name, "good"),
                         bad |-> generalCompanions(PlantOf(plant_id).name, "bad")]]>>]

\* GET /api/beds/:id/companion-check
CompanionCheck(id, plant_id, row, col) ==
  /\ resp' = CompanionCheckResponse(id, plant_id, row, col)
  /\ UNCHANGED <<db, nextBedId, nextPlacementId, nextPlantId, nextWindowId>>
  /\ UNCHANGED <<taskDb, alertState>>

----------------------------------------------------------------------------
(* Planting calendar: GET /api/plants/plant-now, /watched/list, /calendar/year *)

\* a window test that knows no window wrapping the year
isInWindowSameYear(pw, currentMonth) ==
  currentMonth >= pw.start_month /\ currentMonth <= pw.end_month

\* pw.start_month <= pw.end_month AND ? BETWEEN pw.start_month AND pw.end_month
\* OR pw.start_month > pw.end_month AND (? >= pw.start_month OR ? <= pw.end_month)
isInWindow(pw, currentMonth) ==
  \/ /\ pw.start_month <= pw.end_month
     /\ currentMonth >= pw.start_month /\ currentMonth <= pw.end_month
  \/ /\ pw.start_month > pw.end_month
     /\ (currentMonth >= pw.start_month \/ currentMonth <= pw.end_month)

\* a row of plant-now that says nothing of the window
plantNowRowPlantOnly(p, pw) ==
  [id |-> p.id, name |-> p.name, variety |-> p.variety,
   water_needs |-> p.water_needs, watched |-> p.watched,
   window_type |-> Null, start_month |-> 0, end_month |-> 0]

\* one row of plant-now: p.*, pw.window_type, pw.start_month, pw.end_month
plantNowRow(p, pw) ==
  [id |-> p.id, name |-> p.name, variety |-> p.variety,
   water_needs |-> p.water_needs, watched |-> p.watched,
   window_type |-> pw.window_type,
   start_month |-> pw.start_month, end_month |-> pw.end_month]

\* SELECT DISTINCT ... FROM plants p JOIN planting_windows pw ON p.id = pw.plant_id
\* WHERE the window contains the month; DISTINCT makes the result a set of rows
plantNow(currentMonth) ==
  { plantNowRow(PlantOf(pw.plant_id), pw) :
      pw \in {w \in planting_windows :
                PlantRows(w.plant_id) # {} /\ isInWindow(w, currentMonth)} }

\* the response of GET /api/plants/plant-now when the clock shows currentMonth
PlantNowResponse(currentMonth) ==
  [Response(200, "") EXCEPT
     !.req = <<[route |-> "plant-now", currentMonth |-> currentMonth]>>,
     !.body = <<plantNow(currentMonth)>>]

\* GET /api/plants/plant-now
PlantNow(currentMonth) ==
  /\ resp' = PlantNowResponse(currentMonth)
  /\ UNCHANGED <<db, nextBedId, nextPlacementId, nextPlantId, nextWindowId>>
  /\ UNCHANGED <<taskDb, alertState>>

\* PlantingSchedule: acc[key].find(p => p.id === plant.id) keeps one row for each
\* plant id inside a group
Deduplicated(rows) ==
  CHOOSE T \in SUBSET rows :
    \A r \in rows : Cardinality({t \in T : t.id = r.id}) = 1

\* PlantingSchedule: the rows of the current month grouped by window_type
grouped(rows) ==
  [key \in {r.window_type : r \in rows} |->
     Deduplicated({r \in rows : r.window_type = key})]

\* the place of a plant name in ORDER BY p.name
NameRank(name) ==
  CASE name = "Cucumber" -> 1
    [] name = "Garlic" -> 2
    [] name = "Lettuce" -> 3
    [] name = "Potato" -> 4
    [] OTHER -> 5

\* ORDER BY pw.start_month, pw.start_day, p.name; rows that tie come in rowid order
CalendarBefore(a, b) ==
  LET ka == <<a.start_month, a.start_day, NameRank(PlantOf(a.plant_id).name), a.id>>
      kb == <<b.start_month, b.start_day, NameRank(PlantOf(b.plant_id).name), b.id>>
  IN  \E i \in 1..4 : ka[i] < kb[i] /\ \A j \in 1..(i - 1) : ka[j] = kb[j]

RECURSIVE CalendarOrder(_)
\* the windows of a set in the order of the calendar query
CalendarOrder(S) ==
  IF S = {} THEN <<>>
  ELSE LET first == CHOOSE a \in S : \A b \in S \ {a} : CalendarBefore(a, b)
       IN  <<first>> \o CalendarOrder(S \ {first})

\* the calendar query without WHERE p.watched = 1
calendarRowsAllPlants ==
  CalendarOrder({pw \in planting_windows : PlantRows(pw.plant_id) # {}})

\* SELECT ... FROM plants p JOIN planting_windows pw ON p.id = pw.plant_id
\* WHERE p.watched = 1
calendarRows ==
  CalendarOrder({pw \in planting_windows :
                   PlantRows(pw.plant_id) # {} /\ PlantOf(pw.plant_id).watched = 1})

\* events.push({ plant_id, plant_name, window_type, start_month, ..., wraps_year })
EventOf(pw) ==
  [plant_id |-> pw.plant_id,
   plant_name |-> plantName(PlantOf(pw.plant_id).name, PlantOf(pw.plant_id).variety),
   window_type |-> pw.window_type,
   start_month |-> pw.start_month, start_day |-> JsOr(pw.start_day, 1),
   end_month |-> pw.end_month, end_day |-> JsOr(pw.end_day, 28),
   wraps_year |-> pw.start_month > pw.end_month]

\* the events of the calendar, one for each row of the query
events == [k \in 1..Len(calendarRows) |-> EventOf(calendarRows[k])]

\* an agenda that lists an event in its start month only
inStartMonth(e, month) == month = e.start_month

\* the filter of the agenda: e.wraps_year ? month >= e.start_month || month <= e.end_month
\*                                        : month >= e.start_month && month <= e.end_month
inMonth(e, month) ==
  IF e.wraps_year THEN month >= e.start_month \/ month <= e.end_month
  ELSE month >= e.start_month /\ month <= e.end_month

RECURSIVE Filter(_, _)
\* events.filter(e => ...) for one month
Filter(es, month) ==
  IF es = <<>> THEN <<>>
  ELSE (IF inMonth(Head(es), month) THEN <<Head(es)>> ELSE <<>>)
         \o Filter(Tail(es), month)

\* agenda[month].events for month = 1..12
agenda == [month \in Months |-> Filter(events, month)]

\* new Set(plants.map(p => p.id)).size
watched_count == Cardinality({calendarRows[k].plant_id : k \in 1..Len(calendarRows)})

\* the response of GET /api/plants/calendar/year
CalendarYearResponse ==
  [Response(200, "") EXCEPT
     !.req = <<[route |-> "calendar/year"]>>,
     !.body = <<[events |-> events, agenda |-> agenda,
                 watched_count |-> watched_count]>>]

\* GET /api/plants/calendar/year
CalendarYear ==
  /\ resp' = CalendarYearResponse
  /\ UNCHANGED <<db, nextBedId, nextPlacementId, nextPlantId, nextWindowId>>
  /\ UNCHANGED <<taskDb, alertState>>

\* SELECT p.*, json_group_array(...) FROM plants p LEFT JOIN planting_windows pw
\* ON p.id = pw.plant_id WHERE p.watched = 1 GROUP BY p.id: one row for each watched
\* plant, with the windows it has
watchedList ==
  { [id |-> p.id, name |-> p.name, variety |-> p.variety,
     planting_windows |-> {pw \in planting_windows : pw.plant_id = p.id}] :
      p \in {q \in plants : q.watched = 1} }

\* the response of GET /api/plants/watched/list
WatchedListResponse ==
  [Response(200, "") EXCEPT
     !.req = <<[route |-> "watched/list"]>>, !.body = <<watchedList>>]

\* GET /api/plants/watched/list
WatchedList ==
  /\ resp' = WatchedListResponse
  /\ UNCHANGED <<db, nextBedId, nextPlacementId, nextPlantId, nextWindowId>>
  /\ UNCHANGED <<taskDb, alertState>>

----------------------------------------------------------------------------
(* PlantingCalendar component: the timeline of the year calendar            *)

\* a test that takes every window for one that wraps the year
isMonthInWindowWrapped(month, startMonth, endMonth) ==
  month >= startMonth \/ month <= endMonth

\* const isMonthInWindow = (month, startMonth, endMonth) => { ... }
isMonthInWindow(month, startMonth, endMonth) ==
  IF startMonth <= endMonth THEN month >= startMonth /\ month <= endMonth
  ELSE month >= startMonth \/ month <= endMonth

RECURSIVE activeWindows(_, _)
\* plant.windows.filter(w => isMonthInWindow(monthNum, w.start_month, w.end_month))
activeWindows(windows, monthNum) ==
  IF windows = <<>> THEN <<>>
  ELSE (IF isMonthInWindow(monthNum, Head(windows).start_month,
                           Head(windows).end_month)
          THEN <<Head(windows)>> ELSE <<>>)
         \o activeWindows(Tail(windows), monthNum)

RECURSIVE windowsOfPlant(_, _)
\* calendarData.events.reduce(...): the events of one plant, in their order
windowsOfPlant(es, plant_id) ==
  IF es = <<>> THEN <<>>
  ELSE (IF Head(es).plant_id = plant_id THEN <<Head(es)>> ELSE <<>>)
         \o windowsOfPlant(Tail(es), plant_id)

\* the plant rows of the timeline: for each plant of the events and each month,
\* the windows that are drawn as active
timeline(es) ==
  [plant_id \in {es[k].plant_id : k \in 1..Len(es)} |->
     [monthNum \in Months |-> activeWindows(windowsOfPlant(es, plant_id), monthNum)]]

\* what the component shows after its fetch of /api/plants/calendar/year: the
\* agenda of the response and the timeline drawn from the events
PlantingCalendarView ==
  [Response(200, "") EXCEPT
     !.req = <<[route |-> "PlantingCalendar"]>>,
     !.body = <<[events |-> events, agenda |-> agenda,
                 timeline |-> timeline(events)]>>]

\* the component mounts: useEffect fetches the calendar and the views are drawn
PlantingCalendar ==
  /\ resp' = PlantingCalendarView
  /\ UNCHANGED <<db, nextBedId, nextPlacementId, nextPlantId, nextWindowId>>
  /\ UNCHANGED <<taskDb, alertState>>

----------------------------------------------------------------------------
(* PlantingSchedule component: the order of the groups                     *)

\* the category column of a plant: 'vegetable' for the seeded rows, NULL for a row
\* that was created by a request without category
categoryOf(p) == IF p.id <= SeedPlantCount THEN "vegetable" ELSE Null

\* ORDER BY p.category, p.name of plant-now: a NULL category sorts first; rows
\* that tie come in rowid order
ScheduleBefore(a, b) ==
  LET ka == <<IF categoryOf(PlantOf(a.plant_id)) = Null THEN 0 ELSE 1,
              NameRank(PlantOf(a.plant_id).name), a.plant_id, a.id>>
      kb == <<IF categoryOf(PlantOf(b.plant_id)) = Null THEN 0 ELSE 1,
              NameRank(PlantOf(b.plant_id).name), b.plant_id, b.id>>
  IN  \E i \in 1..4 : ka[i] < kb[i] /\ \A j \in 1..(i - 1) : ka[j] = kb[j]

RECURSIVE ScheduleOrder(_)
\* the windows of a set in the order of the plant-now query
ScheduleOrder(S) ==
  IF S = {} THEN <<>>
  ELSE LET first == CHOOSE a \in S : \A b \in S \ {a} : ScheduleBefore(a, b)
       IN  <<first>> \o ScheduleOrder(S \ {first})

\* the rows of plant-now as the array that the component receives
plantNowList(currentMonth) ==
  LET ws == ScheduleOrder({w \in planting_windows :
                             PlantRows(w.plant_id) # {} /\ isInWindow(w, currentMonth)})
  IN  [k \in 1..Len(ws) |-> plantNowRow(PlantOf(ws[k].plant_id), ws[k])]

RECURSIVE groupKeysFrom(_, _)
\* Object.entries(grouped): the keys in the order in which reduce created them
groupKeysFrom(rows, seen) ==
  IF rows = <<>> THEN <<>>
  ELSE IF Head(rows).window_type \in seen THEN groupKeysFrom(Tail(rows), seen)
  ELSE <<Head(rows).window_type>>
         \o groupKeysFrom(Tail(rows), seen \cup {Head(rows).window_type})

\* const sortOrder = showAll ? [...] : [...]
sortOrder(showAll) ==
  IF showAll THEN <<"vegetable", "herb", "fruit", "flower", "cover_crop">>
  ELSE <<"indoor_start", "transplant", "direct_sow">>

\* Array.prototype.indexOf: the zero-based place of the key, -1 when it is absent
indexOf(order, key) ==
  IF \E i \in 1..Len(order) : order[i] = key
    THEN Min({i \in 1..Len(order) : order[i] = key}) - 1
    ELSE -1

RECURSIVE sortedFrom(_, _, _)
\* the keys whose indexOf is i or more, by ascending indexOf, ties in input order
sortedFrom(keys, order, i) ==
  IF i > Len(order) - 1 THEN <<>>
  ELSE SelectSeq(keys, LAMBDA key : indexOf(order, key) = i)
         \o sortedFrom(keys, order, i + 1)

\* Object.entries(grouped).sort((a, b) => sortOrder.indexOf(a[0]) - sortOrder.indexOf(b[0])):
\* the sort is stable and the comparator orders by indexOf, from -1 upwards
sortedGroups(keys, order) == sortedFrom(keys, order, -1)

\* what the component shows in its current-month view after the fetch of plant-now
PlantingScheduleView(currentMonth) ==
  [Response(200, "") EXCEPT
     !.req = <<[route |-> "PlantingSchedule", currentMonth |-> currentMonth]>>,
     !.body = <<[entries |-> groupKeysFrom(plantNowList(currentMonth), {}),
                 sortedGroups |-> sortedGroups(groupKeysFrom(plantNowList(currentMonth), {}),
                                               sortOrder(FALSE))]>>]

\* the component mounts while the clock shows currentMonth
PlantingSchedule(currentMonth) ==
  /\ resp' = PlantingScheduleView(currentMonth)
  /\ UNCHANGED <<db, nextBedId, nextPlacementId, nextPlantId, nextWindowId>>
  /\ UNCHANGED <<taskDb, alertState>>

----------------------------------------------------------------------------
(* JavaScript Date, for a server clock in UTC: a time value is counted in   *)
(* days since 1 January of EpochYear                                       *)

EpochYear == 2024

\* DaysInYear(y) of ECMAScript is 366 for these years
IsLeap(y) == (y % 4 = 0 /\ y % 100 # 0) \/ y % 400 = 0

DaysInMonth(y, m) ==
  IF m = 2 THEN (IF IsLeap(y) THEN 29 ELSE 28)
  ELSE IF m \in {4, 6, 9, 11} THEN 30 ELSE 31

RECURSIVE DayFromYear(_)
\* the day number of 1 January of year y
DayFromYear(y) ==
  IF y <= EpochYear THEN 0
  ELSE DayFromYear(y - 1) + (IF IsLeap(y - 1) THEN 366 ELSE 365)

RECURSIVE DaysBeforeMonth(_, _)
\* the days of year y before its month m (1..12)
DaysBeforeMonth(y, m) ==
  IF m <= 1 THEN 0 ELSE DaysBeforeMonth(y, m - 1) + DaysInMonth(y, m - 1)

\* MakeDay(year, month, date) of ECMAScript: month counts from 0 and may run past
\* 11, date may run past the end of the month
MakeDay(year, month, date) ==
  DayFromYear(year + (month \div 12))
    + DaysBeforeMonth(year + (month \div 12), (month % 12) + 1)
    + date - 1

\* new Date('YYYY-MM-DD'): the date-only form is read as UTC midnight
DateParse(ymd) == MakeDay(ymd[1], ymd[2] - 1, ymd[3])

\* the year, month (1..12) and day of a time value
Civil(t) ==
  LET y == CHOOSE year \in EpochYear..(EpochYear + 4) : DayFromYear(year) <= t /\ t < DayFromYear(year + 1)
      m == CHOOSE month \in 1..12 :
             /\ DayFromYear(y) + DaysBeforeMonth(y, month) <= t
             /\ t < DayFromYear(y) + DaysBeforeMonth(y, month) + DaysInMonth(y, month)
  IN  <<y, m, t - DayFromYear(y) - DaysBeforeMonth(y, m) + 1>>

getFullYear(t) == Civil(t)[1]
\* getMonth counts from 0
getMonth(t) == Civil(t)[2] - 1
getDate(t) == Civil(t)[3]

setDate(t, date) == MakeDay(getFullYear(t), getMonth(t), date)
setMonth(t, month) == MakeDay(getFullYear(t), month, getDate(t))
setFullYear(t, year) == MakeDay(year, getMonth(t), getDate(t))

\* toISOString().split('T')[0]
toISODate(t) == Civil(t)

----------------------------------------------------------------------------
(* Tasks                                                                   *)

TaskRows(id) == {t \in tasks : t.id = id}

TaskOf(id) == CHOOSE t \in tasks : t.id = id

\* FOREIGN KEY (plant_id) REFERENCES plants(id), FOREIGN KEY (planting_id)
\* REFERENCES plantings(id); the model keeps no planting
TaskForeignKeysOk(plant_id, planting_id) ==
  /\ plant_id # Undefined => PlantRows(plant_id) # {}
  /\ planting_id = Undefined

\* the row of INSERT INTO tasks (title, description, task_type, due_date,
\* recurring, plant_id, planting_id); completed_at is NULL
NewTask(title, description, task_type, due_date, recurring, plant_id, planting_id) ==
  [id |-> nextTaskId, title |-> title, description |-> description,
   task_type |-> task_type, due_date |-> due_date, recurring |-> recurring,
   completed_at |-> <<>>, plant_id |-> plant_id, planting_id |-> planting_id]

\* POST /api/tasks
CreateTask(title, description, task_type, due_date, recurring, plant_id, planting_id) ==
  /\ title # Null => nextTaskId <= MaxCreatedTaskId
  /\ IF title = Null
       THEN /\ resp' = Response(400, "Task title is required")
            /\ UNCHANGED taskDb
       ELSE IF ~ TaskForeignKeysOk(plant_id, planting_id)
         THEN /\ resp' = Response(500, "Failed to create task")
              /\ UNCHANGED taskDb
         ELSE /\ tasks' = tasks \cup {NewTask(title, description, task_type, due_date,
                                              recurring, plant_id, planting_id)}
              /\ nextTaskId' = nextTaskId + 1
              /\ resp' = [Response(201, "") EXCEPT
                            !.req = <<[route |-> "tasks", id |-> nextTaskId]>>]
  /\ UNCHANGED <<db, nextBedId, nextPlacementId, nextPlantId, nextWindowId, alertState>>

\* a switch that advances every recurrence by one day
nextDateDaily(due_date, recurring) == toISODate(setDate(DateParse(due_date),
                                                        getDate(DateParse(due_date)) + 1))

\* let nextDate = new Date(task.due_date); switch (task.recurring) { ... };
\* nextDate.toISOString().split('T')[0]
nextDate(due_date, recurring) ==
  LET t == DateParse(due_date)
  IN  toISODate(
        CASE recurring = "daily" -> setDate(t, getDate(t) + 1)
          [] recurring = "weekly" -> setDate(t, getDate(t) + 7)
          [] recurring = "biweekly" -> setDate(t, getDate(t) + 14)
          [] recurring = "monthly" -> setMonth(t, getMonth(t) + 1)
          [] recurring = "yearly" -> setFullYear(t, getFullYear(t) + 1)
          [] OTHER -> t)

\* the rows that complete inserts: the next occurrence of a task that has a
\* recurrence and a due date
nextOccurrence(task) ==
  IF task.recurring # Null /\ task.due_date # <<>>
    THEN {[id |-> nextTaskId, title |-> task.title, description |-> task.description,
           task_type |-> task.task_type,
           due_date |-> nextDate(task.due_date, task.recurring),
           recurring |-> task.recurring, completed_at |-> <<>>,
           plant_id |-> task.plant_id, planting_id |-> task.planting_id]}
    ELSE {}

\* POST /api/tasks/:id/complete
Complete(id) ==
  /\ (TaskRows(id) # {} /\ TaskOf(id).recurring # Null /\ TaskOf(id).due_date # <<>>)
       => nextTaskId <= MaxTaskId
  /\ IF TaskRows(id) = {}
       THEN /\ resp' = Response(404, "Task not found")
            /\ UNCHANGED taskDb
       ELSE /\ tasks' = (tasks \ TaskRows(id))
                          \cup {[TaskOf(id) EXCEPT !.completed_at = <<now>>]}
                          \cup nextOccurrence(TaskOf(id))
            /\ nextTaskId' = nextTaskId + Cardinality(nextOccurrence(TaskOf(id)))
            /\ resp' = [Response(200, "") EXCEPT
                          !.req = <<[route |-> "complete", id |-> id]>>,
                          !.body = <<[TaskOf(id) EXCEPT !.completed_at = <<now>>]>>]
  /\ UNCHANGED <<db, nextBedId, nextPlacementId, nextPlantId, nextWindowId, alertState>>

\* POST /api/tasks/:id/uncomplete
Uncomplete(id) ==
  /\ IF TaskRows(id) = {}
       THEN /\ resp' = Response(404, "Task not found")
            /\ UNCHANGED tasks
       ELSE /\ tasks' = (tasks \ TaskRows(id))
                          \cup {[TaskOf(id) EXCEPT !.completed_at = <<>>]}
            /\ resp' = [Response(200, "") EXCEPT
                          !.req = <<[route |-> "uncomplete", id |-> id]>>,
                          !.body = <<[TaskOf(id) EXCEPT !.completed_at = <<>>]>>]
  /\ UNCHANGED <<db, nextBedId, nextPlacementId, nextPlantId, nextWindowId,
                 nextTaskId, alertState>>

\* TaskManager.handleToggleTask: uncomplete a task that shows a completed_at,
\* complete any other
handleToggleTask(id) ==
  /\ TaskRows(id) # {}
  /\ IF TaskOf(id).completed_at # <<>> THEN Uncomplete(id) ELSE Complete(id)

----------------------------------------------------------------------------
(* Alerts: the alert settings, the checks of a reading and the notification *)

\* the JSON text of the warm_season profile
WarmSeasonJson ==
  "{\"moisture_low\":25,\"moisture_critical\":18,\"moisture_high\":80,\"temp_low\":55,\"temp_critical_low\":50,\"temp_high\":90,\"temp_critical_high\":95}"

\* the rows of alert_settings: notifications enabled to a topic, a cooldown of 60
\* minutes, quiet hours from 22 to 7, and the warm_season profile
alert_settings ==
  [key \in {"ntfy_enabled", "ntfy_topic", "alert_cooldown_minutes",
            "quiet_hours_start", "quiet_hours_end", "profile_warm_season"} |->
     CASE key = "ntfy_enabled" -> "true"
       [] key = "ntfy_topic" -> "garden-alerts"
       [] key = "alert_cooldown_minutes" -> "60"
       [] key = "quiet_hours_start" -> "22"
       [] key = "quiet_hours_end" -> "7"
       [] OTHER -> WarmSeasonJson]

\* parseInt and parseFloat of the texts that occur; any other text gives NaN
parseNumber(text) ==
  CASE text = "7" -> 7 [] text = "10" -> 10 [] text = "22" -> 22
    [] text = "40" -> 40 [] text = "50" -> 50 [] text = "60" -> 60
    [] OTHER -> NaN

\* JSON.parse of a profile text
JSONparse(text) ==
  IF text = WarmSeasonJson
    THEN [moisture_low |-> 25, moisture_critical |-> 18, moisture_high |-> 80,
          temp_low |-> 55, temp_critical_low |-> 50, temp_high |-> 90,
          temp_critical_high |-> 95]
    ELSE [moisture_low |-> NaN, moisture_critical |-> NaN, moisture_high |-> NaN,
          temp_low |-> NaN, temp_critical_low |-> NaN, temp_high |-> NaN,
          temp_critical_high |-> NaN]

\* getSetting: row ? row.value : null
getSetting(key) == IF key \in DOMAIN alert_settings THEN alert_settings[key] ELSE Null

\* bed?.profile || getSetting('default_profile') || 'warm_season': the beds of the
\* model carry no sensor, so no bed is found for a sensor
profileNameOf(sensorId) ==
  IF getSetting("default_profile") # Null THEN getSetting("default_profile")
  ELSE "warm_season"

\* getProfile: the parsed value of the key profile_<name>, or none
getProfile(profileName) ==
  LET key == IF profileName = "warm_season" THEN "profile_warm_season"
             ELSE "profile_unknown"
  IN  IF getSetting(key) # Null THEN <<JSONparse(getSetting(key))>> ELSE <<>>

\* parseInt(getSetting('alert_cooldown_minutes')) || 60
cooldownMinutes ==
  IF parseNumber(getSetting("alert_cooldown_minutes")) \in {NaN, 0} THEN 60
  ELSE parseNumber(getSetting("alert_cooldown_minutes"))

\* SELECT id FROM alert_history WHERE sensor_id = ? AND alert_type = ?
\* AND sent_at > datetime('now', '-N minutes')
isInCooldown(sensorId, alertType) ==
  \E a \in alert_history :
    /\ a.sensor_id = sensorId /\ a.alert_type = alertType
    /\ a.sent_at > now - cooldownMinutes

\* the alert type of a moisture reading under a profile, Null for none
moistureAlertType(moisturePercent, profile) ==
  IF moisturePercent <= profile.moisture_critical THEN "moisture_critical_low"
  ELSE IF moisturePercent <= profile.moisture_low THEN "moisture_low"
  ELSE IF moisturePercent >= profile.moisture_high THEN "moisture_high"
  ELSE Null

\* the alert type of a temperature reading under a profile, Null for none
temperatureAlertType(tempF, profile) ==
  IF tempF <= profile.temp_critical_low THEN "temp_critical_low"
  ELSE IF tempF <= profile.temp_low THEN "temp_low"
  ELSE IF tempF >= profile.temp_critical_high THEN "temp_critical_high"
  ELSE IF tempF >= profile.temp_high THEN "temp_high"
  ELSE Null

\* checkMoistureAlert and checkTemperatureAlert up to their await: the request
\* that the check of one reading leaves in flight; sendNtfyNotification sends it
\* when notifications are enabled and a topic is set
checkAlert(reading, alertType) ==
  IF /\ getProfile(profileNameOf(reading.sensor_id)) # <<>>
     /\ alertType # Null
     /\ ~ isInCooldown(reading.sensor_id, alertType)
     /\ getSetting("ntfy_enabled") = "true" /\ getSetting("ntfy_topic") # Null
  THEN {[reading |-> reading.id, sensor_id |-> reading.sensor_id,
         alert_type |-> alertType, called_at |-> now]}
  ELSE {}

\* the rows that insertMany writes for the fields of channel 1
newReadings(soilmoisture1, tf_ch1) ==
  LET first == Cardinality(sensor_readings) + 1
      moisture == IF soilmoisture1 = Null THEN {}
                  ELSE {[id |-> first, sensor_id |-> "soil_moisture_1",
                         sensor_type |-> "moisture",
                         value |-> parseNumber(soilmoisture1), timestamp |-> now]}
      temperature == IF tf_ch1 = Null THEN {}
                     ELSE {[id |-> first + Cardinality(moisture),
                            sensor_id |-> "soil_temp_1", sensor_type |-> "temperature",
                            value |-> parseNumber(tf_ch1), timestamp |-> now]}
  IN  moisture \cup temperature

\* the requests that the alert checks of new readings leave in flight
newChecks(readings) ==
  UNION { checkAlert(r,
            IF getProfile(profileNameOf(r.sensor_id)) = <<>> THEN Null
            ELSE IF r.sensor_type = "moisture"
              THEN moistureAlertType(r.value, getProfile(profileNameOf(r.sensor_id))[1])
              ELSE temperatureAlertType(r.value,
                                        getProfile(profileNameOf(r.sensor_id))[1])) :
          r \in readings }

\* POST /api/sensors/ecowitt: the readings are stored, each alert check runs up to
\* the await of its notification request, and the gateway is answered
Ecowitt(soilmoisture1, tf_ch1) ==
  /\ Cardinality(sensor_readings \cup newReadings(soilmoisture1, tf_ch1)) <= MaxReadingId
  /\ sensor_readings' = sensor_readings \cup newReadings(soilmoisture1, tf_ch1)
  /\ inFlight' = inFlight \cup newChecks(newReadings(soilmoisture1, tf_ch1))
  /\ resp' = [Response(200, "") EXCEPT !.req = <<[route |-> "ecowitt"]>>]
  /\ UNCHANGED <<alert_history, notifications, now>>
  /\ UNCHANGED <<db, nextBedId, nextPlacementId, nextPlantId, nextWindowId, taskDb>>

\* the rest of an alert check: the notification service answers the request; when
\* the answer is ok the notification went out at the time of the call and
\* recordAlert stores the alert with the time of the answer
NtfyResponds(check, ok) ==
  /\ check \in inFlight
  /\ inFlight' = inFlight \ {check}
  /\ IF ok
       THEN /\ notifications' = notifications \cup
                 {[reading |-> check.reading, sensor_id |-> check.sensor_id,
                   alert_type |-> check.alert_type, at |-> check.called_at]}
            /\ alert_history' = alert_history \cup
                 {[id |-> Cardinality(alert_history) + 1,
                   sensor_id |-> check.sensor_id, alert_type |-> check.alert_type,
                   sent_at |-> now]}
       ELSE UNCHANGED <<notifications, alert_history>>
  /\ UNCHANGED <<sensor_readings, now, resp>>
  /\ UNCHANGED <<db, nextBedId, nextPlacementId, nextPlantId, nextWindowId, taskDb>>

\* the clock moves on
Tick ==
  /\ now < StartMinute + MaxTicks * TickMinutes
  /\ now' = now + TickMinutes
  /\ UNCHANGED <<sensor_readings, alert_history, inFlight, notifications, resp>>
  /\ UNCHANGED <<db, nextBedId, nextPlacementId, nextPlantId, nextWindowId, taskDb>>

----------------------------------------------------------------------------
(* Specification                                                           *)

\* the requests of the grid: beds, placements and the cascade of a plant delete
Next ==
  \/ \E name \in BedNameInputs, rows \in DimInputs, cols \in DimInputs :
       CreateBed(name, rows, cols)
  \/ \E id \in BedIds, rows \in DimInputs, cols \in DimInputs :
       UpdateBed(id, rows, cols)
  \/ \E id \in BedIds : DeleteBed(id)
  \/ \E id \in BedIds, plant_id \in GridPlantIdInputs,
        row \in PosInputs, col \in PosInputs :
       nextPlacementId <= MaxGridPlacementId /\ Place(id, plant_id, row, col)
  \/ \E id \in BedIds, placementId \in GridPlacementIds,
        row \in PosInputs, col \in PosInputs : Move(id, placementId, row, col)
  \/ \E id \in BedIds, placementId \in GridPlacementIds : Remove(id, placementId)
  \/ \E id \in GridPlantIds : DeletePlant(id)

Spec == Init /\ [][Next]_vars

\* the requests of bed analysis: well-formed placements of seeded and created
\* plants in one bed, and the analysis of the bed
NextAnalysis ==
  \/ nextBedId = 1 /\ CreateBed(1, Undefined, Undefined)
  \/ \E plant_id \in AnalysisPlantIds, row \in 0..MaxRow, col \in 0..MaxCol :
       Place(1, plant_id, row, col)
  \/ \E placementId \in PlacementIds : Remove(1, placementId)
  \/ \E water_needs \in WaterInputs :
       nextPlantId <= MaxAnalysisPlantId /\ CreatePlant("Lettuce", Null, water_needs, <<>>)
  \/ Analyze(1)

SpecAnalysis == Init /\ [][NextAnalysis]_vars

\* the requests of the planting calendar: plants with their windows, the watch
\* flag, and the three views
NextCalendar ==
  \/ \E windows \in WindowInputs : CreatePlant("Lettuce", Null, Null, windows)
  \/ \E id \in PlantIds : ToggleWatch(id)
  \/ \E id \in PlantIds : DeletePlant(id)
  \/ \E currentMonth \in Months : PlantNow(currentMonth)
  \/ CalendarYear
  \/ WatchedList

SpecCalendar == Init /\ [][NextCalendar]_vars

\* the requests around companions: placements of seeded and created plants in one
\* bed, the analysis of the bed and the companion check of a candidate cell
NextCompanion ==
  \/ nextBedId = 1 /\ CreateBed(1, Undefined, Undefined)
  \/ \E plant_id \in AnalysisPlantIds, row \in 0..MaxRow, col \in 0..MaxCol :
       nextPlacementId <= MaxGridPlacementId /\ Place(1, plant_id, row, col)
  \/ \E placementId \in GridPlacementIds : Remove(1, placementId)
  \/ nextPlantId <= MaxAnalysisPlantId /\ CreatePlant("Lettuce", Null, Null, <<>>)
  \/ Analyze(1)
  \/ \E plant_id \in CandidatePlantIds, row \in 0..MaxRow, col \in 0..MaxCol :
       CompanionCheck(1, plant_id, row, col)

SpecCompanion == Init /\ [][NextCompanion]_vars

\* the requests of the planting calendar when a create request carries months
\* outside 1..12
NextInterval ==
  \/ \E windows \in IntervalWindowInputs : CreatePlant("Lettuce", Null, Null, windows)
  \/ \E id \in PlantIds : ToggleWatch(id)
  \/ \E currentMonth \in Months : PlantNow(currentMonth)
  \/ CalendarYear

SpecInterval == Init /\ [][NextInterval]_vars

\* the store after a plant was created with one planting window and is being
\* watched, for every start and end month of the window
InitMonths ==
  \E start_month \in Months, end_month \in Months :
    /\ beds = {}
    /\ bed_placements = {}
    /\ plants = seedPlants \cup
                  {[id |-> SeedPlantCount + 1, name |-> "Lettuce", variety |-> Null,
                    water_needs |-> Null, watched |-> 1]}
    /\ companion_relationships = seedCompanions
    /\ planting_windows = seedWindows \cup
                  {[id |-> SeedWindowCount + 1, plant_id |-> SeedPlantCount + 1,
                    window_type |-> "direct_sow",
                    start_month |-> start_month, start_day |-> 1,
                    end_month |-> end_month, end_day |-> 28]}
    /\ nextBedId = 1
    /\ nextPlacementId = 1
    /\ nextPlantId = SeedPlantCount + 2
    /\ nextWindowId = SeedWindowCount + 2
    /\ resp = Response(0, "")
    /\ InitTasksAndAlerts

\* the three views of the months of a window: plant-now for each current month,
\* the year calendar, and the component with its timeline
NextMonths ==
  \/ \E currentMonth \in Months : PlantNow(currentMonth)
  \/ CalendarYear
  \/ PlantingCalendar

SpecMonths == InitMonths /\ [][NextMonths]_vars

\* the requests behind the planting schedule: plants with windows of several
\* types, and the component in each month
NextSchedule ==
  \/ \E windows \in ScheduleWindowInputs : CreatePlant("Lettuce", Null, Null, windows)
  \/ \E id \in PlantIds : DeletePlant(id)
  \/ \E currentMonth \in Months : PlantingSchedule(currentMonth)

SpecSchedule == Init /\ [][NextSchedule]_vars

\* the requests on the beds table with any rows and cols, and the analysis of a bed
NextBeds ==
  \/ \E rows \in BedDimInputs, cols \in BedDimInputs : CreateBed(1, rows, cols)
  \/ \E id \in BedIds, rows \in BedDimInputs, cols \in BedDimInputs :
       UpdateBed(id, rows, cols)
  \/ \E id \in BedIds : DeleteBed(id)
  \/ \E id \in BedIds : Analyze(id)

SpecBeds == Init /\ [][NextBeds]_vars

\* the requests on tasks: one created task, then complete and uncomplete of any task
NextTasks ==
  \/ \E body \in TaskInputs :
       CreateTask(body.title, body.description, body.task_type, body.due_date,
                  body.recurring, body.plant_id, body.planting_id)
  \/ \E id \in TaskIds : Complete(id)
  \/ \E id \in TaskIds : Uncomplete(id)

SpecTasks == Init /\ [][NextTasks]_vars

\* one created task and the toggles of the task list on it
NextToggle ==
  \/ \E body \in TaskInputs :
       CreateTask(body.title, body.description, body.task_type, body.due_date,
                  body.recurring, body.plant_id, body.planting_id)
  \/ handleToggleTask(1)

SpecToggle == Init /\ [][NextToggle]_vars

\* the gateway posts readings, the notification service answers the requests in
\* flight in any order, and time passes
NextAlerts ==
  \/ \E data \in EcowittInputs : Ecowitt(data.soilmoisture1, data.tf_ch1)
  \/ \E check \in inFlight, ok \in BOOLEAN : NtfyResponds(check, ok)
  \/ Tick

SpecAlerts == Init /\ [][NextAlerts]_vars

----------------------------------------------------------------------------
(* Claims about the grid, checked under Spec                               *)

\* the error kinds of the specification, as the handlers word them
CellOccupied == {"Cell is already occupied", "Target cell is already occupied"}

OutOfBoundsError == "Cell position out of bounds"

\* 0 <= row < bed.rows and 0 <= col < bed.cols, for a value the request carries
InGrid(bed, row, col) ==
  /\ row # Undefined /\ 0 <= row /\ row < bed.rows
  /\ col # Undefined /\ 0 <= col /\ col < bed.cols

\* C1: no two stored placements share the same (bed_id, row, col)
C1_CellHoldsAtMostOnePlant ==
  \A p \in bed_placements : \A q \in bed_placements :
    p # q => ~ (p.bed_id = q.bed_id /\ p.row = q.row /\ p.col = q.col)

\* C1 witness: two placements are stored and a Move that would have put one of them
\* on the other's cell has just been refused by the UNIQUE constraint
C1_Witness ==
  /\ Cardinality(bed_placements) = 2
  /\ \E p \in bed_placements : \E q \in bed_placements : p # q /\ p.bed_id = q.bed_id
  /\ resp.error = "Failed to update placement"

\* C2: a Place on a cell that holds a placement is answered CellOccupied and stores
\* nothing; once a Place has created a placement, a second Place for the same cell is
\* answered CellOccupied
C2_OccupiedCellYieldsCellOccupied ==
  [][\A id \in BedIds : \A plant_id \in GridPlantIdInputs :
       \A row \in PosInputs : \A col \in PosInputs :
         Place(id, plant_id, row, col) =>
           /\ PlacementsAt(id, row, col) # {} =>
                /\ resp'.error \in CellOccupied
                /\ bed_placements' = bed_placements
           /\ resp'.status = 201 =>
                \A other \in GridPlantIdInputs :
                  (PlaceResponse(id, other, row, col).error \in CellOccupied)']_vars

\* C3: a Place whose row or col is not a value inside the bed's grid (negative, too
\* large or absent) is answered OutOfBounds and stores nothing
C3_OutsideGridYieldsOutOfBounds ==
  [][\A id \in BedIds : \A plant_id \in GridPlantIdInputs :
       \A row \in PosInputs : \A col \in PosInputs :
         ( /\ Place(id, plant_id, row, col)
           /\ BedRows(id) # {}
           /\ ~ InGrid(BedOf(id), row, col) ) =>
           /\ resp'.error = OutOfBoundsError
           /\ bed_placements' = bed_placements]_vars

\* C4: every stored placement lies inside the grid of its bed, so a bed never holds
\* more placements than it has cells
C4_PlacementsInsideGrid ==
  \A b \in beds :
    /\ \A bp \in bed_placements : bp.bed_id = b.id => InGrid(b, bp.row, bp.col)
    /\ Cardinality({bp \in bed_placements : bp.bed_id = b.id}) <= b.rows * b.cols

\* C5: a Move is checked against its target cell as Place is: OutOfBounds outside the
\* grid, CellOccupied when another placement holds the target, success otherwise
\* (the own cell included); a failure stores nothing and a success changes only the
\* row and col of the moved placement
C5_MoveChecksTargetCell ==
  [][\A id \in BedIds : \A placementId \in GridPlacementIds :
       \A row \in PosInputs : \A col \in PosInputs :
         ( /\ Move(id, placementId, row, col)
           /\ BedRows(id) # {}
           /\ PlacementRows(placementId, id) # {}
           /\ (row # Undefined \/ col # Undefined) ) =>
           LET cur == CHOOSE bp \in PlacementRows(placementId, id) : TRUE
               target == MovedPlacement(cur, row, col)
               others == {bp \in PlacementsAt(id, target.row, target.col) :
                            bp.id # placementId}
           IN  /\ ~ InGrid(BedOf(id), target.row, target.col) =>
                    resp'.error = OutOfBoundsError
               /\ (InGrid(BedOf(id), target.row, target.col) /\ others # {}) =>
                    resp'.error \in CellOccupied
               /\ (InGrid(BedOf(id), target.row, target.col) /\ others = {}) =>
                    resp'.status = 200
               /\ resp'.status # 200 => bed_placements' = bed_placements
               /\ resp'.status = 200 =>
                    bed_placements' = (bed_placements \ {cur}) \cup {target}]_vars

\* C6: a Remove of a placement that the addressed bed does not hold is answered
\* NotFound and changes nothing; a Remove of a stored placement deletes that placement
\* alone, and a Place of a stored plant into the freed cell then succeeds
C6_RemoveFreesTheCell ==
  [][\A id \in BedIds : \A placementId \in GridPlacementIds :
       Remove(id, placementId) =>
         /\ PlacementRows(placementId, id) = {} =>
              /\ resp'.status = 404
              /\ resp'.error = "Placement not found"
              /\ UNCHANGED db
         /\ \A cur \in PlacementRows(placementId, id) :
              /\ resp'.status = 204
              /\ bed_placements' = bed_placements \ {cur}
              /\ UNCHANGED <<beds, plants, companion_relationships>>
              /\ \A p \in plants :
                   (PlaceResponse(id, p.id, cur.row, cur.col).status = 201)']_vars

----------------------------------------------------------------------------
(* Claims about bed analysis, checked under SpecAnalysis                   *)

\* the bed that the last response analysed
AnalysedBedId == resp.bed[1].id

\* the stored placements of that bed
AnalysedPlacements == {bp \in bed_placements : bp.bed_id = AnalysedBedId}

\* the number of its placements whose plant has the given water_needs
AnalysedCount(w) ==
  Cardinality({bp \in AnalysedPlacements : PlantOf(bp.plant_id).water_needs = w})

\* max(|row difference|, |col difference|)
Chebyshev(p, q) == Max({Abs(p.row - q.row), Abs(p.col - q.col)})

\* a relationship tagged bad is stored for the two names, in either order
StoredBad(a, b) ==
  \E r \in companion_relationships :
    /\ r.relationship = "bad"
    /\ \/ (r.plant_name_a = a /\ r.plant_name_b = b)
       \/ (r.plant_name_a = b /\ r.plant_name_b = a)

\* the unordered pairs of placements that are adjacent and bad companions
BadNeighbours ==
  { {pq[1].id, pq[2].id} :
      pq \in {x \in AnalysedPlacements \X AnalysedPlacements :
                /\ x[1] # x[2]
                /\ Chebyshev(x[1], x[2]) = 1
                /\ StoredBad(PlantOf(x[1].plant_id).name,
                             PlantOf(x[2].plant_id).name)} }

\* C7: companion_issues has exactly one entry for each unordered pair of distinct
\* adjacent placements whose names have a stored bad relationship, and no other entry
C7_CompanionIssuesExact ==
  resp.analysis # <<>> =>
    LET issues == resp.analysis[1].companion_issues
    IN  /\ {{issues[k].plant1.id, issues[k].plant2.id} : k \in 1..Len(issues)}
             = BadNeighbours
        /\ Len(issues) = Cardinality(BadNeighbours)
        /\ \A k \in 1..Len(issues) : issues[k].plant1.id # issues[k].plant2.id

\* C7 witness: an analysis of three placements reports one issue, the third
\* placement being adjacent to the pair without being a bad companion
C7_Witness ==
  /\ resp.analysis # <<>>
  /\ Len(resp.analysis[1].companion_issues) = 1
  /\ Cardinality(AnalysedPlacements) = 3
  /\ \A p \in AnalysedPlacements : \A q \in AnalysedPlacements :
       p # q => Chebyshev(p, q) = 1

\* C8: water_needs has the three buckets low, medium, high and nothing else, every
\* bucket counts the placements of that water_needs, and a placement with an unset
\* or any other water_needs changes nothing
C8_ThreeBucketsOnly ==
  resp.analysis # <<>> =>
    LET counts == resp.analysis[1].water_needs
    IN  /\ DOMAIN counts = {"low", "medium", "high"}
        /\ \A k \in DOMAIN counts : counts[k] = AnalysedCount(k)
        /\ counts["low"] + counts["medium"] + counts["high"]
             <= resp.analysis[1].total_plants

\* C9: has_water_conflict is true exactly when a low placement and a high placement
\* are stored, whatever the number of medium placements
C9_ConflictIffLowAndHigh ==
  resp.analysis # <<>> =>
    ( resp.analysis[1].has_water_conflict
        <=> (AnalysedCount("low") > 0 /\ AnalysedCount("high") > 0) )

\* C9 witness: an analysis reports a conflict for a bed that also holds a medium plant
C9_Witness ==
  /\ resp.analysis # <<>>
  /\ resp.analysis[1].has_water_conflict
  /\ AnalysedCount("medium") > 0

\* C10: a step that answers with an analysis changes no stored row, a second analysis of the same bed returns
\* the response of the first, total_plants is the bed's placement count and total_cells
\* is rows * cols
C10_AnalysisIsPureRead ==
  [][ /\ resp'.analysis # <<>> =>
           UNCHANGED <<db, nextBedId, nextPlacementId, nextPlantId>>
      /\ resp.analysis # <<>> =>
           /\ AnalyzeResponse(AnalysedBedId) = resp
           /\ resp.analysis[1].total_plants = Cardinality(AnalysedPlacements)
           /\ resp.analysis[1].total_cells
                = BedOf(AnalysedBedId).rows * BedOf(AnalysedBedId).cols
    ]_vars

\* C10 witness: an analysis of a bed that holds a plant without water_needs
C10_Witness ==
  /\ resp.analysis # <<>>
  /\ resp.analysis[1].total_plants = 2
  /\ \E bp \in AnalysedPlacements : PlantOf(bp.plant_id).water_needs = Null

----------------------------------------------------------------------------
(* Claims about the planting calendar, checked under SpecCalendar          *)

RECURSIVE MonthsSpanned(_, _)
\* the months met when walking from start to end, December being followed by January
MonthsSpanned(start, end) ==
  IF start = end THEN {end} ELSE {start} \cup MonthsSpanned((start % 12) + 1, end)

\* the last response is the one of the given route
Answered(route) == resp.req # <<>> /\ resp.req[1].route = route

\* C11: plant-now lists a window for month m exactly when start_month <= end_month and
\* start_month <= m <= end_month, or start_month > end_month and (m >= start_month or
\* m <= end_month); window (4,7) holds 4..7 only, window (10,2) holds 10,11,12,1,2 only;
\* start_day and end_day play no part
C11_PlantNowWindowContainsMonth ==
  Answered("plant-now") =>
    LET m == resp.req[1].currentMonth
    IN  \A pw \in planting_windows :
          LET listed == plantNowRow(PlantOf(pw.plant_id), pw) \in resp.body[1]
              s == pw.start_month
              e == pw.end_month
          IN  /\ listed <=> ( (s <= e /\ s <= m /\ m <= e)
                              \/ (s > e /\ (m >= s \/ m <= e)) )
              /\ (s = 4 /\ e = 7) => (listed <=> m \in 4..7)
              /\ (s = 10 /\ e = 2) => (listed <=> m \in {10, 11, 12, 1, 2})

\* C11 witness: in January plant-now lists a window from 15 October to 20 February
C11_Witness ==
  /\ Answered("plant-now")
  /\ resp.req[1].currentMonth = 1
  /\ \E r \in resp.body[1] : r.start_month = 10 /\ r.end_month = 2
  /\ \E pw \in planting_windows :
       pw.start_month = 10 /\ pw.start_day = 15 /\ pw.end_day = 20

\* C12: an event is in agenda[m] exactly for the months m that its window spans, and
\* once; a window from 11 to 1 is in agenda[11], agenda[12], agenda[1] and no other
C12_AgendaCoversEveryMonthOfWindow ==
  Answered("calendar/year") =>
    LET es == resp.body[1].events
        ag == resp.body[1].agenda
    IN  \A k \in 1..Len(es) : \A m \in Months :
          LET times == Cardinality({j \in 1..Len(ag[m]) : ag[m][j] = es[k]})
          IN  /\ times = (IF m \in MonthsSpanned(es[k].start_month, es[k].end_month)
                            THEN 1 ELSE 0)
              /\ (es[k].start_month = 11 /\ es[k].end_month = 1)
                   => (times = 1 <=> m \in {11, 12, 1})

\* C12 witness: the calendar holds an event from month 11 to month 1, listed in December
C12_Witness ==
  /\ Answered("calendar/year")
  /\ \E k \in 1..Len(resp.body[1].agenda[12]) :
       /\ resp.body[1].agenda[12][k].start_month = 11
       /\ resp.body[1].agenda[12][k].end_month = 1

\* C13: watched_count of the calendar is the number of plants with watched = 1, the
\* plants of the watched list
C13_WatchedCountIsWatchedSet ==
  Answered("calendar/year") =>
    /\ resp.body[1].watched_count = Cardinality({p \in plants : p.watched = 1})
    /\ resp.body[1].watched_count = Cardinality(watchedList)

\* the windows of the watched plants
WatchedWindows ==
  {pw \in planting_windows : \E p \in plants : p.id = pw.plant_id /\ p.watched = 1}

\* C14: the calendar has exactly one event for each window of each watched plant, an
\* unwatched plant has no event and is in no agenda month, and wraps_year is
\* start_month > end_month
C14_OneEventPerWatchedWindow ==
  Answered("calendar/year") =>
    LET es == resp.body[1].events
        ag == resp.body[1].agenda
    IN  /\ Len(es) = Cardinality(WatchedWindows)
        /\ \A pw \in WatchedWindows :
             Cardinality({k \in 1..Len(es) :
                            /\ es[k].plant_id = pw.plant_id
                            /\ es[k].window_type = pw.window_type
                            /\ es[k].start_month = pw.start_month
                            /\ es[k].end_month = pw.end_month}) = 1
        /\ \A k \in 1..Len(es) : es[k].wraps_year <=> es[k].start_month > es[k].end_month
        /\ \A p \in plants : p.watched = 0 =>
             /\ \A k \in 1..Len(es) : es[k].plant_id # p.id
             /\ \A m \in Months : \A k \in 1..Len(ag[m]) : ag[m][k].plant_id # p.id

\* C14 witness: the calendar of a watched plant with two windows, one of them wrapping
\* the year, while a plant with a window is not watched
C14_Witness ==
  /\ Answered("calendar/year")
  /\ \E p \in plants :
       /\ p.watched = 1
       /\ Cardinality({k \in 1..Len(resp.body[1].events) :
                         resp.body[1].events[k].plant_id = p.id}) = 2
  /\ \E k \in 1..Len(resp.body[1].events) : resp.body[1].events[k].wraps_year
  /\ \E pw \in planting_windows : pw \notin WatchedWindows

\* the windows that span the month of the last plant-now request
QualifyingWindows ==
  {pw \in planting_windows :
     resp.req[1].currentMonth \in MonthsSpanned(pw.start_month, pw.end_month)}

\* C15: plant-now has exactly one row for each (plant, window) whose window holds the
\* month, a plant with two such windows of different types having one row for each,
\* and a window_type group of the schedule view shows each of its plants once
C15_OneRowPerPlantAndWindow ==
  Answered("plant-now") =>
    LET rows == resp.body[1]
    IN  /\ Cardinality(rows) = Cardinality(QualifyingWindows)
        /\ \A pw \in QualifyingWindows :
             Cardinality({r \in rows : r.id = pw.plant_id
                                        /\ r.window_type = pw.window_type}) = 1
        /\ \A r \in rows : \E pw \in QualifyingWindows :
             r.id = pw.plant_id /\ r.window_type = pw.window_type
        /\ \A key \in DOMAIN grouped(rows) :
             /\ {t.id : t \in grouped(rows)[key]}
                  = {pw.plant_id : pw \in {w \in QualifyingWindows : w.window_type = key}}
             /\ \A t \in grouped(rows)[key] :
                  Cardinality({u \in grouped(rows)[key] : u.id = t.id}) = 1

\* C15 witness: in November plant-now lists one plant twice, once for transplant and
\* once for direct_sow
C15_Witness ==
  /\ Answered("plant-now")
  /\ resp.req[1].currentMonth = 11
  /\ \E r \in resp.body[1] : \E q \in resp.body[1] :
       r.id = q.id /\ r.window_type = "transplant" /\ q.window_type = "direct_sow"

----------------------------------------------------------------------------
(* Claims about companions, checked under SpecCompanion                    *)

\* the relationship tags stored for two names, in either order
StoredTags(a, b) ==
  {r.relationship : r \in {x \in companion_relationships :
                             \/ (x.plant_name_a = a /\ x.plant_name_b = b)
                             \/ (x.plant_name_a = b /\ x.plant_name_b = a)}}

\* the number of infos of the last companion check, over all buckets, at a cell
InfosAt(row, col) ==
  LET aa == resp.body[1].adjacent_analysis
      At(bucket) == Cardinality({k \in 1..Len(aa[bucket]) :
                                   /\ aa[bucket][k].position.row = row
                                   /\ aa[bucket][k].position.col = col})
  IN  At("good") + At("bad") + At("neutral")

\* the last companion check put the cell in the given bucket
InBucket(bucket, row, col) ==
  \E k \in 1..Len(resp.body[1].adjacent_analysis[bucket]) :
    /\ resp.body[1].adjacent_analysis[bucket][k].position.row = row
    /\ resp.body[1].adjacent_analysis[bucket][k].position.col = col

\* C16: companion-check classifies exactly the placements of the bed at distance 1
\* from the candidate cell, each once, into good or bad as stored for the two names
\* and into neutral when nothing is stored, and it never answers with a failure
C16_ClassifiesExactlyTheNeighbours ==
  /\ resp.error # "Failed to check companions"
  /\ Answered("companion-check") =>
       LET q == resp.req[1]
           name == PlantOf(q.plant_id).name
       IN  \A bp \in {x \in bed_placements : x.bed_id = q.id} :
             IF Chebyshev(bp, q) = 1
               THEN /\ InfosAt(bp.row, bp.col) = 1
                    /\ LET tags == StoredTags(name, PlantOf(bp.plant_id).name)
                       IN  IF tags = {} THEN InBucket("neutral", bp.row, bp.col)
                           ELSE \A t \in tags : InBucket(t, bp.row, bp.col)
               ELSE InfosAt(bp.row, bp.col) = 0

\* the tag that the lookup finds for two names
RelationshipTag(name1, name2) ==
  IF relationship(name1, name2) = <<>> THEN "none"
  ELSE relationship(name1, name2)[1].relationship

\* the names of the stored plants and of the relationship table
Names ==
  {p.name : p \in plants}
    \cup {r.plant_name_a : r \in companion_relationships}
    \cup {r.plant_name_b : r \in companion_relationships}

\* the unordered cell pairs of a list of companion issues
IssueCells(issues) ==
  { {<<issues[k].plant1.row, issues[k].plant1.col>>,
     <<issues[k].plant2.row, issues[k].plant2.col>>} : k \in 1..Len(issues) }

\* the lists that hold the elements of a list in another order
Reorderings(ps) ==
  { [k \in 1..Len(ps) |-> ps[f[k]]] :
      f \in {g \in [1..Len(ps) -> 1..Len(ps)] :
               \A i \in 1..Len(ps) : \A j \in 1..Len(ps) : i # j => g[i] # g[j]} }

\* the candidate of the last companion check as a placement on its cell
CandidateRow ==
  [id |-> 0, bed_id |-> resp.req[1].id, plant_id |-> resp.req[1].plant_id,
   row |-> resp.req[1].row, col |-> resp.req[1].col,
   plant_name |-> PlantOf(resp.req[1].plant_id).name,
   plant_variety |-> PlantOf(resp.req[1].plant_id).variety,
   water_needs |-> PlantOf(resp.req[1].plant_id).water_needs]

OtherVarieties == {Null, "Lemon"}

\* the plants tables that differ from the stored one in the varieties of the placed
\* plants only
Revarieties ==
  { {IF p.id \in DOMAIN g THEN [p EXCEPT !.variety = g[p.id]] ELSE p : p \in plants} :
      g \in [{bp.plant_id : bp \in bed_placements} -> OtherVarieties] }

\* the cells of a classification, bucket by bucket
BucketCells(aa) ==
  [bucket \in DOMAIN aa |->
     {<<aa[bucket][k].position.row, aa[bucket][k].position.col>> :
        k \in 1..Len(aa[bucket])}]

\* the type, cell and message of each warning of a companion_info
WarningCells(ws) ==
  {<<ws[k].type, ws[k].position.row, ws[k].position.col, ws[k].message>> :
     k \in 1..Len(ws)}

\* C18: a bed state that differs in the varieties of the plants only has the same
\* cell pairs of companion issues, the same companion_info on Place and the same
\* classification in companion-check
C18_VarietyNeverMatters ==
  \A table \in Revarieties :
    /\ IssueCells(companionIssues(placementsIn(table, 1)))
         = IssueCells(companionIssues(placements(1)))
    /\ \A p \in plants : \A row \in 0..MaxRow : \A col \in 0..MaxCol :
         /\ BucketCells(adjacent_analysis(p.name,
                                          adjacentPlacementsIn(table, 1, row, col)))
              = BucketCells(adjacent_analysis(p.name, adjacentPlacements(1, row, col)))
         /\ WarningCells(warnings(p.name, adjacentPlacementsIn(table, 1, row, col)))
              = WarningCells(warnings(p.name, adjacentPlacements(1, row, col)))

\* C18 witness: the analysis reports an issue between two plants that have a variety,
\* and a Place has just answered with a warning
C18_Witness ==
  /\ companionIssues(placements(1)) # <<>>
  /\ \A k \in 1..Len(placements(1)) : placements(1)[k].plant_variety # Null
  /\ resp.status = 201 /\ resp.body # <<>> /\ resp.body[1].companion_info # <<>>

----------------------------------------------------------------------------
(* Claims about the stored rows                                            *)

\* every planting window has its plant, every placement its bed and its plant
ReferencesExist ==
  /\ \A pw \in planting_windows : PlantRows(pw.plant_id) # {}
  /\ \A bp \in bed_placements : BedRows(bp.bed_id) # {} /\ PlantRows(bp.plant_id) # {}

\* C19: every planting window references a stored plant and every placement a stored
\* bed and a stored plant, also after the delete of a plant or of a bed, and a Place
\* into a free cell of a bed that names a plant that is not stored creates nothing
\* and answers NotFound
C19_ReferencesExistAndMissingPlantIsNotFound ==
  [][ /\ ReferencesExist'
      /\ \A id \in BedIds : \A plant_id \in PlantIds :
         \A row \in 0..MaxGridPos : \A col \in 0..MaxGridPos :
           ( /\ Place(id, plant_id, row, col)
             /\ BedRows(id) # {}
             /\ InGrid(BedOf(id), row, col)
             /\ PlacementsAt(id, row, col) = {}
             /\ PlantRows(plant_id) = {} )
           => (resp'.status = 404 /\ UNCHANGED bed_placements)
    ]_vars

\* C20: no two stored plants have the same name and the same variety, two plants
\* without variety of one name included
C20_NameAndVarietyIdentifyPlant ==
  \A p \in plants : \A q \in plants :
    (p.name = q.name /\ p.variety = q.variety) => p.id = q.id

----------------------------------------------------------------------------
(* Claims about failed and refused requests                                *)

\* C21: every mutating request is all-or-nothing: a request that is answered with
\* an error leaves the stored tables as they were before it; in particular a plant
\* created with two windows of one window_type stores the plant and all its
\* windows or stores nothing.  Checked under SpecCalendar.
C21_ErrorStoresNothing ==
  [][resp'.status >= 400 => UNCHANGED db]_vars

\* the months of plant-now rows or agenda events
InRange(r) == r.start_month \in Months /\ r.end_month \in Months

\* C22: a planting window whose start_month or end_month lies outside 1..12 is
\* refused: no such window is ever stored, plant-now lists no row of such a window
\* and no agenda month of the year calendar lists an event of one.  Checked under
\* SpecInterval.
C22_OutOfRangeMonthsRefused ==
  /\ \A pw \in planting_windows : InRange(pw)
  /\ Answered("plant-now") => \A r \in resp.body[1] : InRange(r)
  /\ Answered("calendar/year") =>
       \A month \in Months :
         \A k \in 1..Len(resp.body[1].agenda[month]) :
           InRange(resp.body[1].agenda[month][k])

----------------------------------------------------------------------------
(* Claims about the answer of Place, checked under SpecCompanion           *)

\* the last response is the answer of a successful Place
Placed == resp.status = 201 /\ resp.body # <<>>

\* the placement that the last Place stored
PlacedRow == resp.body[1].placement

\* the cells of the companion_info entries of one type
InfoCells(type) ==
  { <<resp.body[1].companion_info[k].position.row,
      resp.body[1].companion_info[k].position.col>> :
      k \in {j \in 1..Len(resp.body[1].companion_info) :
               resp.body[1].companion_info[j].type = type} }

\* the number of companion_info entries of one type
InfoCount(type) ==
  Cardinality({j \in 1..Len(resp.body[1].companion_info) :
                 resp.body[1].companion_info[j].type = type})

\* the cells of the partners of the new placement in the issues that an analysis
\* of its bed reports now
PartnerCells ==
  LET issues == analysis(PlacedRow.bed_id).companion_issues
  IN  { <<issues[k].plant2.row, issues[k].plant2.col>> :
          k \in {j \in 1..Len(issues) : issues[j].plant1.id = PlacedRow.id} }
      \cup
      { <<issues[k].plant1.row, issues[k].plant1.col>> :
          k \in {j \in 1..Len(issues) : issues[j].plant2.id = PlacedRow.id} }

\* the cells of the stored placements next to the new one whose plant is stored
\* as a good companion of the new plant
GoodNeighbourCells ==
  { <<bp.row, bp.col>> :
      bp \in {q \in bed_placements :
                /\ q.bed_id = PlacedRow.bed_id /\ q.id # PlacedRow.id
                /\ Chebyshev(q, PlacedRow) <= 1
                /\ StoredTags(PlantOf(q.plant_id).name, PlacedRow.plant_name)
                     = {"good"}} }

\* C26: when Place succeeds the placement is stored, also when bad companions are
\* reported, and companion_info holds one bad_companion entry for exactly the
\* placements that an analysis run right afterwards reports as issue partners of
\* the new placement, and one good_companion entry for exactly the adjacent
\* placements with a good relationship.
C26_PlaceAgreesWithAnalysis ==
  Placed =>
    /\ \E bp \in bed_placements :
         /\ bp.id = PlacedRow.id /\ bp.plant_id = PlacedRow.plant_id
         /\ bp.row = PlacedRow.row /\ bp.col = PlacedRow.col
    /\ InfoCells("bad_companion") = PartnerCells
    /\ InfoCount("bad_companion") = Cardinality(PartnerCells)
    /\ InfoCells("good_companion") = GoodNeighbourCells
    /\ InfoCount("good_companion") = Cardinality(GoodNeighbourCells)
    /\ InfoCount("bad_companion") + InfoCount("good_companion")
         = Len(resp.body[1].companion_info)

\* a Place that reported a bad companion and whose placement is stored
C26_Witness ==
  /\ Placed
  /\ InfoCount("bad_companion") > 0
  /\ PartnerCells # {}
  /\ \E bp \in bed_placements : bp.id = PlacedRow.id

----------------------------------------------------------------------------
(* Claims about the month tests, checked under SpecMonths                  *)

\* the stored windows of watched plants
ShownWindows ==
  {pw \in planting_windows :
     PlantRows(pw.plant_id) # {} /\ PlantOf(pw.plant_id).watched = 1}

\* a sequence of events holds the event of a window
HoldsEventOf(es, pw) ==
  \E k \in 1..Len(es) :
    /\ es[k].plant_id = pw.plant_id /\ es[k].window_type = pw.window_type
    /\ es[k].start_month = pw.start_month /\ es[k].end_month = pw.end_month

\* plant-now listed a window in its answer
ListedNow(pw) ==
  \E r \in resp.body[1] :
    /\ r.id = pw.plant_id /\ r.window_type = pw.window_type
    /\ r.start_month = pw.start_month /\ r.end_month = pw.end_month

\* C27: the three month-membership tests agree for every start_month, end_month
\* and month in 1..12: the agenda of the year calendar and the timeline of the
\* component show a window in the same months, and plant-now lists a window in a
\* month exactly when the timeline draws it active in that month.
C27_MonthTestsAgree ==
  /\ Answered("PlantingCalendar") =>
       \A pw \in ShownWindows : \A month \in Months :
         HoldsEventOf(resp.body[1].agenda[month], pw)
           <=> HoldsEventOf(resp.body[1].timeline[pw.plant_id][month], pw)
  /\ Answered("plant-now") =>
       \A pw \in ShownWindows :
         ListedNow(pw)
           <=> HoldsEventOf(timeline(events)[pw.plant_id][resp.req[1].currentMonth], pw)

\* the calendar of a window that wraps the year: active in December and January,
\* not in June, in the agenda and in the timeline
C27_Witness ==
  /\ Answered("PlantingCalendar")
  /\ \E pw \in ShownWindows :
       /\ pw.start_month > pw.end_month
       /\ HoldsEventOf(resp.body[1].timeline[pw.plant_id][12], pw)
       /\ HoldsEventOf(resp.body[1].agenda[1], pw)
       /\ ~ HoldsEventOf(resp.body[1].timeline[pw.plant_id][6], pw)

----------------------------------------------------------------------------
(* Claims about the planting schedule, checked under SpecSchedule          *)

\* the groups that the current-month view lists in its display order
Listed == {"indoor_start", "transplant", "direct_sow"}

\* the place of a listed group in the display order
DisplayRank(key) ==
  CASE key = "indoor_start" -> 1 [] key = "transplant" -> 2 [] OTHER -> 3

\* the place of a key in a sequence of distinct keys
PlaceIn(keys, key) == CHOOSE i \in 1..Len(keys) : keys[i] = key

\* C28: the groups of the schedule are shown in the fixed order indoor_start,
\* transplant, direct_sow; a group outside the list is shown after all listed
\* groups, and the groups outside the list keep their relative input order.
C28_UnlistedGroupsComeLast ==
  Answered("PlantingSchedule") =>
    LET shown == resp.body[1].sortedGroups
        input == resp.body[1].entries
    IN  /\ {shown[k] : k \in 1..Len(shown)} = {input[k] : k \in 1..Len(input)}
        /\ Len(shown) = Len(input)
        /\ \A i \in 1..Len(shown) : \A j \in (i + 1)..Len(shown) :
             /\ (shown[i] \in Listed /\ shown[j] \in Listed)
                  => DisplayRank(shown[i]) < DisplayRank(shown[j])
             /\ ~ (shown[i] \notin Listed /\ shown[j] \in Listed)
             /\ (shown[i] \notin Listed /\ shown[j] \notin Listed)
                  => PlaceIn(input, shown[i]) < PlaceIn(input, shown[j])

----------------------------------------------------------------------------
(* Claims about the dimensions of a bed, checked under SpecBeds            *)

\* C29: every stored bed has rows >= 1 and cols >= 1 after any create or update of
\* a bed, whatever rows and cols the request gives (missing, zero, negative), so
\* that the total_cells of an analysis is at least 1.
C29_BedHasPositiveDimensions ==
  /\ \A b \in beds : b.rows >= 1 /\ b.cols >= 1
  /\ resp.analysis # <<>> => resp.analysis[1].total_cells >= 1

----------------------------------------------------------------------------
(* Claims about tasks, checked under SpecTasks and SpecToggle              *)

\* the rows of a later table whose id an earlier table does not hold
AddedTasks(before, after) == {n \in after : \A t \in before : t.id # n.id}

\* the month after the month of a date, as <<year, month>>
MonthAfter(ymd) == IF ymd[2] = 12 THEN <<ymd[1] + 1, 1>> ELSE <<ymd[1], ymd[2] + 1>>

\* a date lies strictly after another
LaterDate(a, b) ==
  \/ a[1] > b[1]
  \/ a[1] = b[1] /\ a[2] > b[2]
  \/ a[1] = b[1] /\ a[2] = b[2] /\ a[3] > b[3]

\* a due date is another advanced by one period of a recurrence: so many days
\* later, in the month after, in the year after
AdvancedByOnePeriod(old, new, recurring) ==
  CASE recurring = "daily" -> DateParse(new) = DateParse(old) + 1
    [] recurring = "weekly" -> DateParse(new) = DateParse(old) + 7
    [] recurring = "biweekly" -> DateParse(new) = DateParse(old) + 14
    [] recurring = "monthly" -> <<new[1], new[2]>> = MonthAfter(old)
    [] recurring = "yearly" -> new[1] = old[1] + 1
    [] OTHER -> FALSE

\* what the claim says of the tables before and after the completion of a task
CompletedAsClaimed(task, before, after) ==
  /\ \E t \in after : t.id = task.id /\ t.completed_at # <<>>
  /\ IF task.recurring # Null /\ task.due_date # <<>>
       THEN /\ Cardinality(AddedTasks(before, after)) = 1
            /\ \A n \in AddedTasks(before, after) :
                 /\ n.title = task.title /\ n.description = task.description
                 /\ n.task_type = task.task_type /\ n.recurring = task.recurring
                 /\ n.plant_id = task.plant_id /\ n.planting_id = task.planting_id
                 /\ n.completed_at = <<>>
                 /\ AdvancedByOnePeriod(task.due_date, n.due_date, task.recurring)
                 /\ LaterDate(n.due_date, task.due_date)
       ELSE AddedTasks(before, after) = {}

\* C25: completing a recurring task that has a due date marks it completed and
\* creates exactly one new pending task with the same title, description, type,
\* recurrence, plant and planting and a due date advanced by one period (daily one
\* day, weekly 7 days, biweekly 14 days, monthly one month, yearly one year),
\* strictly later than the due date of the completed task; completing a task with
\* no recurrence creates no task.  Checked under SpecTasks.
C25_CompleteCreatesNextOccurrence ==
  [][\A id \in TaskIds :
       (resp'.req = <<[route |-> "complete", id |-> id]>> /\ TaskRows(id) # {})
         => CompletedAsClaimed(TaskOf(id), tasks, tasks')]_vars

\* C30: complete followed by uncomplete leaves the task table as it was before the
\* complete: whenever the created task is pending again it is the only task, and
\* the toggles on it never leave more than one pending occurrence derived from it.
\* Checked under SpecToggle.
C30_UncompleteRevertsComplete ==
  /\ (TaskRows(1) # {} /\ TaskOf(1).completed_at = <<>>) => Cardinality(tasks) = 1
  /\ Cardinality({t \in tasks : t.id # 1 /\ t.completed_at = <<>>}) <= 1

----------------------------------------------------------------------------
(* Claims about alerts, checked under SpecAlerts                           *)

\* the hour of the day of a minute of the clock
HourOf(minute) == (minute \div 60) % 24

\* an hour lies in the quiet hours of the settings, which may wrap over midnight
InQuietHours(hour) ==
  LET start == parseNumber(getSetting("quiet_hours_start"))
      end == parseNumber(getSetting("quiet_hours_end"))
  IN  IF start <= end THEN hour >= start /\ hour < end
      ELSE hour >= start \/ hour < end

\* C23: the cooldown separates repeat alerts: for each sensor and alert type, two
\* notifications that were sent lie at least alert_cooldown_minutes apart, for any
\* sequence of gateway posts and any interleaving of the alert checks they start.
C23_CooldownSeparatesAlerts ==
  \A a \in notifications : \A b \in notifications :
    (a.reading # b.reading /\ a.sensor_id = b.sensor_id /\ a.alert_type = b.alert_type)
      => Abs(a.at - b.at) >= cooldownMinutes

\* C24: no push notification is sent during quiet hours: no notification went out
\* at an hour between quiet_hours_start and quiet_hours_end.
C24_NoNotificationInQuietHours ==
  \A n \in notifications : ~ InQuietHours(HourOf(n.at))

====
